---------------------------- MODULE Spec2Model ----------------------------
(***************************************************************************)
(* A model of the GBF container codec of clicat/gbin (RUST/src/codec.rs,   *)
(* header.rs, value.rs).  Files, headers and payloads are byte sequences   *)
(* (integers 0..255); strings are their UTF-8 bytes.  The leaf codec, the  *)
(* header JSON text, the CRC-32 and the header CRC placeholder rule are    *)
(* computed on those bytes as the code computes them.                      *)
(***************************************************************************)
EXTENDS Integers, Sequences, FiniteSets, TLC

(***************************************************************************)
(* Program constants.                                                      *)
(***************************************************************************)
COMPRESS_THRESHOLD_BYTES == 1024
AUTO_COMPRESS_THRESHOLD_BYTES == 64 * 1024
AUTO_ENTROPY_SAMPLE_BYTES == 4096
\* AUTO_ENTROPY_MAX_UNIQUE_RATIO = 0.95, kept as the fraction 95 / 100
AUTO_ENTROPY_MAX_UNIQUE_RATIO_NUM == 95
AUTO_ENTROPY_MAX_UNIQUE_RATIO_DEN == 100
READ_COALESCE_MAX_GAP_BYTES == 4096
READ_COALESCE_MAX_GROUP_BYTES == 8 * 1024 * 1024
MAX_HEADER_LEN == 64 * 1024 * 1024
VERSION == 1
MAGIC_BYTES == <<71, 82, 69, 68, 66, 73, 78, 0>>
\* the writer's fixed-point loop runs `for _ in 0..10`
MAX_HEADER_ITERATIONS == 10

(***************************************************************************)
(* Bytes and little-endian integers.                                       *)
(***************************************************************************)
Byte == 0..255

Min(a, b) == IF a <= b THEN a ELSE b
Max(a, b) == IF a >= b THEN a ELSE b

\* s[lo..hi] as a sequence (empty when lo > hi)
Slice(s, lo, hi) == SubSeq(s, lo, hi)

\* the concatenation of the sequences of a sequence of sequences
RECURSIVE ConcatRange(_, _, _)
ConcatRange(ss, lo, hi) ==
    IF lo > hi THEN <<>>
    ELSE IF lo = hi THEN ss[lo]
    ELSE LET mid == (lo + hi) \div 2
         IN  ConcatRange(ss, lo, mid) \o ConcatRange(ss, mid + 1, hi)
Concat(ss) == ConcatRange(ss, 1, Len(ss))
\* f[lo] + ... + f[hi]
RECURSIVE SumRange(_, _, _)
SumRange(f, lo, hi) ==
    IF lo > hi THEN 0
    ELSE IF lo = hi THEN f[lo]
    ELSE LET mid == (lo + hi) \div 2
         IN  SumRange(f, lo, mid) + SumRange(f, mid + 1, hi)

\* v.to_le_bytes() of an unsigned value below 2^(8n)
ULe(v, n) == [i \in 1..n |-> (v \div (256 ^ (i - 1))) % 256]
\* v.to_le_bytes() of a signed value: two's complement on n bytes (\div
\* rounds down and % is non-negative).  Model values stay within 32 bits, so
\* the bytes above the fourth are the sign extension.
SLe(v, n) ==
    [i \in 1..n |->
        IF i <= 4 THEN (v \div (256 ^ (i - 1))) % 256
        ELSE IF v < 0 THEN 255 ELSE 0]

\* u16::from_le_bytes, i16::from_le_bytes
U16FromLe(b) == b[1] + 256 * b[2]
I16FromLe(b) == IF b[2] >= 128 THEN U16FromLe(b) - 65536 ELSE U16FromLe(b)
\* i32::from_le_bytes
I32FromLe(b) ==
    b[1] + 256 * b[2] + 65536 * b[3]
      + 16777216 * (IF b[4] >= 128 THEN b[4] - 256 ELSE b[4])
\* The largest integer of the model (2^31 - 1): a decoded u32 or 64-bit value
\* beyond it is reported as this value.
WIDE == 2147483646 + 1
\* u32::from_le_bytes
U32FromLe(b) == IF b[4] >= 128 THEN WIDE ELSE I32FromLe(b)
\* i64::from_le_bytes
I64FromLe(b) ==
    LET lo == I32FromLe(<<b[1], b[2], b[3], b[4]>>)
        ext == IF b[4] >= 128 THEN 255 ELSE 0
    IN  IF \A i \in 5..8 : b[i] = ext THEN lo ELSE WIDE

(***************************************************************************)
(* CRC-32 (IEEE 802.3, reflected, polynomial 0xEDB88320), the function of  *)
(* crc32fast::Hasher that compute_crc32 calls.  A 32-bit word is the tuple *)
(* of its four bytes, low byte first.                                      *)
(***************************************************************************)
Xor4 ==
    [a \in 0..15, b \in 0..15 |->
        LET bit(v, i) == (v \div (2 ^ i)) % 2
        IN  ((bit(a, 0) + bit(b, 0)) % 2)
              + 2 * ((bit(a, 1) + bit(b, 1)) % 2)
              + 4 * ((bit(a, 2) + bit(b, 2)) % 2)
              + 8 * ((bit(a, 3) + bit(b, 3)) % 2)]
XorByte(a, b) == Xor4[a \div 16, b \div 16] * 16 + Xor4[a % 16, b % 16]
XorWord(u, v) ==
    <<XorByte(u[1], v[1]), XorByte(u[2], v[2]),
      XorByte(u[3], v[3]), XorByte(u[4], v[4])>>
ShiftRight1(w) ==
    <<(w[1] \div 2) + (w[2] % 2) * 128, (w[2] \div 2) + (w[3] % 2) * 128,
      (w[3] \div 2) + (w[4] % 2) * 128, w[4] \div 2>>
CRC_POLY == <<32, 131, 184, 237>>
RECURSIVE CrcTableEntry(_, _)
CrcTableEntry(w, k) ==
    IF k = 0 THEN w
    ELSE CrcTableEntry(IF w[1] % 2 = 1 THEN XorWord(ShiftRight1(w), CRC_POLY)
                       ELSE ShiftRight1(w), k - 1)
CrcTable == [i \in 0..255 |-> CrcTableEntry(<<i, 0, 0, 0>>, 8)]
CrcByte(w, b) == XorWord(<<w[2], w[3], w[4], 0>>, CrcTable[XorByte(w[1], b)])
\* the register after bytes s[lo..hi]; the left half is evaluated before
\* the right half is entered, which keeps the evaluation shallow
RECURSIVE CrcRange(_, _, _, _)
CrcRange(w, s, lo, hi) ==
    IF lo > hi THEN w
    ELSE IF lo = hi THEN CrcByte(w, s[lo])
    ELSE LET mid == (lo + hi) \div 2
             left == CrcRange(w, s, lo, mid)
         IN  IF left = left THEN CrcRange(left, s, mid + 1, hi) ELSE left
AllOnes == <<255, 255, 255, 255>>
\* compute_crc32: the u32 as its four bytes, low byte first
compute_crc32(bytes) == XorWord(CrcRange(AllOnes, bytes, 1, Len(bytes)), AllOnes)
CrcZero == <<0, 0, 0, 0>>

\* format!("{:08X}", crc): eight uppercase hexadecimal digits, as ASCII
HexDigitUpper(d) == IF d < 10 THEN 48 + d ELSE 55 + d
Hex08X(w) ==
    <<HexDigitUpper(w[4] \div 16), HexDigitUpper(w[4] % 16),
      HexDigitUpper(w[3] \div 16), HexDigitUpper(w[3] % 16),
      HexDigitUpper(w[2] \div 16), HexDigitUpper(w[2] % 16),
      HexDigitUpper(w[1] \div 16), HexDigitUpper(w[1] % 16)>>

(***************************************************************************)
(* zlib (the flate2 crate).  The deflate coder itself is outside the       *)
(* repository; it is modelled by a coder with the properties the codec     *)
(* relies on: a two-byte zlib header, level 0 emitting stored blocks       *)
(* (always longer than the input), higher levels emitting a run-length     *)
(* coding (shorter than the input only when the input is repetitive), an   *)
(* Adler-32 trailer, and a decoder that rejects a damaged stream.          *)
(***************************************************************************)
ADLER_MOD == 65521
\* Adler-32 of raw as <<a, b>> (raw is shorter than 32 KiB in the model)
Adler32(raw) ==
    LET n == Len(raw)
        a == (1 + SumRange(raw, 1, n)) % ADLER_MOD
        w == [i \in 1..n |-> (((n - i + 1) % ADLER_MOD) * raw[i]) % ADLER_MOD]
        b == (n + SumRange(w, 1, n)) % ADLER_MOD
    IN  <<a, b>>
\* the trailer of a zlib stream: b, then a, high byte first
AdlerWord(ab) == <<ab[2] \div 256, ab[2] % 256, ab[1] \div 256, ab[1] % 256>>
AdlerBytes(raw) == AdlerWord(Adler32(raw))

ZLIB_CMF == 120
\* FLG of the zlib header: its level bits, and the check bits that make
\* CMF * 256 + FLG a multiple of 31
ZlibFlg(level) ==
    IF level <= 1 THEN 1 ELSE IF level <= 5 THEN 94 ELSE IF level = 6 THEN 156 ELSE 218
BLOCK_STORED == 1
BLOCK_CODED == 3
MAX_RUN == 255
MAX_STORED == 65535

\* the run-length coding of raw: <<count, byte>> pairs, then a 0 count
RunStarts(raw) ==
    SelectSeq([i \in 1..Len(raw) |-> i],
              LAMBDA i : i = 1 \/ raw[i] # raw[i - 1])
\* a run of runLen times byte, in pieces of at most MAX_RUN
RunPieces(byte, runLen, pieces) ==
    [t \in 1..(2 * pieces) |->
        IF t % 2 = 0 THEN byte
        ELSE IF (t + 1) \div 2 < pieces THEN MAX_RUN
        ELSE runLen - MAX_RUN * (pieces - 1)]
RunToken(byte, runLen) == RunPieces(byte, runLen, (runLen + MAX_RUN - 1) \div MAX_RUN)
\* st holds the positions where the runs of raw start
RunTokensAt(raw, st) ==
    Concat([j \in 1..Len(st) |->
              RunToken(raw[st[j]],
                       (IF j = Len(st) THEN Len(raw) + 1 ELSE st[j + 1]) - st[j])])
      \o <<0>>
RunTokens(raw) == RunTokensAt(raw, RunStarts(raw))
StoredBlock(raw) ==
    <<BLOCK_STORED>> \o ULe(Len(raw), 2) \o ULe(MAX_STORED - Len(raw), 2) \o raw

\* zlib_compress(raw, level): level.min(9); inputs stay below 64 KiB
zlib_compress(raw, level) ==
    LET lv == Min(level, 9)
    IN  <<ZLIB_CMF, ZlibFlg(lv)>>
          \o (IF lv = 0 THEN StoredBlock(raw) ELSE <<BLOCK_CODED>> \o RunTokens(raw))
          \o AdlerBytes(raw)

\* the inflater: [ok |-> FALSE] on a damaged stream, else the whole output
\* of the stream (bytes after the stream's end are not read)
\* out is the output if the four bytes from position trailer on are its
\* Adler-32
InflateChecked(comp, trailer, out) ==
    IF trailer + 3 <= Len(comp) /\ Slice(comp, trailer, trailer + 3) = AdlerBytes(out)
    THEN [ok |-> TRUE, out |-> out]
    ELSE [ok |-> FALSE, out |-> <<>>]
\* token j is comp[4 + 2 * (j - 1)], comp[5 + 2 * (j - 1)]; token e is the
\* first with a 0 count
InflateTokens(comp, e) ==
    InflateChecked(comp, 4 + 2 * (e - 1) + 1,
                   Concat([j \in 1..(e - 1) |->
                             [t \in 1..comp[4 + 2 * (j - 1)] |-> comp[5 + 2 * (j - 1)]]]))
InflateEnds(comp) ==
    {j \in 1..((Len(comp) - 3 + 1) \div 2 + 1) :
        4 + 2 * (j - 1) <= Len(comp) /\ comp[4 + 2 * (j - 1)] = 0}
InflateFirst(comp, ends) ==
    IF ends = {} THEN [ok |-> FALSE, out |-> <<>>]
    ELSE InflateTokens(comp, CHOOSE j \in ends : \A j2 \in ends : j <= j2)
InflateCoded(comp) == InflateFirst(comp, InflateEnds(comp))
InflateBlock(comp, len, nlen) ==
    IF len + nlen = MAX_STORED
    THEN InflateChecked(comp, 8 + len, Slice(comp, 8, 7 + len))
    ELSE [ok |-> FALSE, out |-> <<>>]
InflateStored(comp) ==
    IF Len(comp) < 7 THEN [ok |-> FALSE, out |-> <<>>]
    ELSE InflateBlock(comp, comp[4] + 256 * comp[5], comp[6] + 256 * comp[7])
Inflate(comp) ==
    IF Len(comp) < 3 \/ comp[1] # ZLIB_CMF \/ (comp[1] * 256 + comp[2]) % 31 # 0
    THEN [ok |-> FALSE, out |-> <<>>]
    ELSE IF comp[3] = BLOCK_STORED THEN InflateStored(comp)
    ELSE IF comp[3] = BLOCK_CODED THEN InflateCoded(comp)
    ELSE [ok |-> FALSE, out |-> <<>>]

\* zlib_decompress(comp, max_out): the output is read through
\* take(max_out + 1); more than max_out bytes is an error.  max_out is
\* below 2^31 in the model, so min(max_out, MAX_FIELD_USIZE) is max_out.
\* max_out.saturating_add(1)
TakeLimit(max_out) == IF max_out >= WIDE THEN WIDE ELSE max_out + 1
\* what read_to_end puts in `out` through dec.take(max_out + 1), r being
\* what the decoder would give without a limit
ZlibRead(r, max_out) == Slice(r.out, 1, Min(Len(r.out), TakeLimit(max_out)))
Inflated(r, max_out) ==
    IF ~r.ok THEN [ok |-> FALSE, out |-> <<>>]
    ELSE IF Len(ZlibRead(r, max_out)) > max_out THEN [ok |-> FALSE, out |-> <<>>]
    ELSE [ok |-> TRUE, out |-> ZlibRead(r, max_out)]
\* an inflater without a limit on its output: not what the code does
ZlibDecompressUncapped(comp, max_out) == Inflate(comp)
zlib_decompress(comp, max_out) == Inflated(Inflate(comp), max_out)

(***************************************************************************)
(* Strings.  A Rust String is the sequence of its UTF-8 bytes; Utf8 gives  *)
(* the bytes of an ASCII literal.                                          *)
(***************************************************************************)
AsciiChars ==
    " !\"#$%&'()*+,-./0123456789:;<=>?@ABCDEFGHIJKLMNOPQRSTUVWXYZ[\\]^_.abcdefghijklmnopqrstuvwxyz{|}~"
AsciiCode ==
    [c \in {SubSeq(AsciiChars, i, i) : i \in 1..Len(AsciiChars)} |->
        31 + (CHOOSE i \in 1..Len(AsciiChars) : SubSeq(AsciiChars, i, i) = c)]
Utf8(s) == [i \in 1..Len(s) |-> AsciiCode[SubSeq(s, i, i)]]

\* to_ascii_lowercase, to_ascii_uppercase
ToAsciiLower(b) == [i \in 1..Len(b) |-> IF b[i] >= 65 /\ b[i] <= 90 THEN b[i] + 32 ELSE b[i]]
ToAsciiUpper(b) == [i \in 1..Len(b) |-> IF b[i] >= 97 /\ b[i] <= 122 THEN b[i] - 32 ELSE b[i]]
EqIgnoreAsciiCase(a, b) == ToAsciiLower(a) = ToAsciiLower(b)
StartsWith(s, p) == Len(p) <= Len(s) /\ \A i \in 1..Len(p) : s[i] = p[i]
\* the byte order of Rust strings (the iteration order of a BTreeMap)
StrLess(a, b) ==
    \E i \in 1..(Min(Len(a), Len(b)) + 1) :
        /\ \A j \in 1..(i - 1) : a[j] = b[j]
        /\ IF i > Len(a) THEN i <= Len(b)
           ELSE i <= Len(b) /\ a[i] < b[i]
\* the members of a finite set of strings in increasing order
SortedStrs(S) ==
    [i \in 1..Cardinality(S) |->
        CHOOSE a \in S : Cardinality({b \in S : StrLess(b, a)}) = i - 1]
DOT == 46
\* str::split('.'): the parts of s between the dots (always at least one)
\* dots holds the positions of the dots of s
SplitAt(s, dots) ==
    [j \in 1..(Len(dots) + 1) |->
        Slice(s, IF j = 1 THEN 1 ELSE dots[j - 1] + 1,
                 IF j = Len(dots) + 1 THEN Len(s) ELSE dots[j] - 1)]
SplitDots(s) == SplitAt(s, SelectSeq([i \in 1..Len(s) |-> i], LAMBDA i : s[i] = DOT))
\* str::trim for ASCII white space
IsAsciiSpace(c) == c \in {9, 10, 11, 12, 13, 32}
Trim(s) ==
    LET keep == {i \in 1..Len(s) : ~IsAsciiSpace(s[i])}
    IN  IF keep = {} THEN <<>>
        ELSE Slice(s, CHOOSE i \in keep : \A j \in keep : i <= j,
                      CHOOSE i \in keep : \A j \in keep : i >= j)

\* std::str::from_utf8 succeeds: every byte is ASCII, or a lead byte followed
\* by exactly its continuation bytes (with the restricted second bytes)
IsCont(c) == c >= 128 /\ c <= 191
LeadLen(c) ==
    IF c < 128 THEN 1
    ELSE IF c >= 194 /\ c <= 223 THEN 2
    ELSE IF c >= 224 /\ c <= 239 THEN 3
    ELSE IF c >= 240 /\ c <= 244 THEN 4
    ELSE 0
IsUtf8(b) ==
    LET n == Len(b)
        runLen(i) ==
            \* the number of continuation bytes that follow position i
            LET stop == {j \in (i + 1)..Min(i + 4, n + 1) :
                            j = n + 1 \/ j = i + 4 \/ ~IsCont(b[j])}
            IN  (CHOOSE j \in stop : \A j2 \in stop : j <= j2) - i - 1
    IN  /\ n = 0 \/ ~IsCont(b[1])
        /\ \A i \in 1..n :
              IsCont(b[i]) \/
                 /\ LeadLen(b[i]) # 0
                 /\ runLen(i) = LeadLen(b[i]) - 1
                 /\ b[i] = 224 => b[i + 1] >= 160
                 /\ b[i] = 237 => b[i + 1] <= 159
                 /\ b[i] = 240 => b[i + 1] >= 144
                 /\ b[i] = 244 => b[i + 1] <= 143

(***************************************************************************)
(* Results and errors: Ok(v) and Err(e), e one of the GbfError variants.   *)
(***************************************************************************)
Ok(v) == [ok |-> TRUE, v |-> v]
Err(e) == [ok |-> FALSE, err |-> e]
\* an error with what its variant carries: the message of a format error, the
\* members of FieldOutOfBounds
ErrWith(e, detail) == [ok |-> FALSE, err |-> e, detail |-> detail]
GbfError ==
    {"Io", "Utf8", "Json", "Format", "Unsupported", "HeaderCrcMismatch",
     "FileSizeMismatch", "VarNotFound", "FieldOutOfBounds",
     "DecompressionFailed", "FieldSizeMismatch", "FieldCrcMismatch"}

(***************************************************************************)
(* GbfValue (value.rs).  A value is a record tagged by its variant in k.   *)
(* A Struct holds m, a function from keys to values; its keys are visited  *)
(* in the byte order of a BTreeMap.  Option<String> is None or Some(v).    *)
(***************************************************************************)
None == [some |-> FALSE, v |-> <<>>]
Some(v) == [some |-> TRUE, v |-> v]
UnwrapOrDefault(o) == IF o.some THEN o.v ELSE <<>>

Struct(m) == [k |-> "Struct", m |-> m]
EmptyStruct == [k |-> "EmptyStruct"]
Numeric(class, shape, complex, real_le, imag_le) ==
    [k |-> "Numeric", class |-> class, shape |-> shape, complex |-> complex,
     real_le |-> real_le, imag_le |-> imag_le]
Logical(shape, data) == [k |-> "Logical", shape |-> shape, data |-> data]
Char(shape, data) == [k |-> "Char", shape |-> shape, data |-> data]
String(shape, data) == [k |-> "String", shape |-> shape, data |-> data]
DateTime(shape, tz, locale, format, is_nat, year, month, day, ms_day) ==
    [k |-> "DateTime", shape |-> shape, tz |-> tz, locale |-> locale,
     format |-> format, is_nat |-> is_nat, year |-> year, month |-> month,
     day |-> day, ms_day |-> ms_day]
Duration(shape, is_nan, ms) ==
    [k |-> "Duration", shape |-> shape, is_nan |-> is_nan, ms |-> ms]
CalendarDuration(shape, is_missing, months, days, time_ms) ==
    [k |-> "CalendarDuration", shape |-> shape, is_missing |-> is_missing,
     months |-> months, days |-> days, time_ms |-> time_ms]
Categorical(shape, categories, codes) ==
    [k |-> "Categorical", shape |-> shape, categories |-> categories,
     codes |-> codes]

NumericClass ==
    {"Double", "Single", "Int8", "Uint8", "Int16", "Uint16", "Int32",
     "Uint32", "Int64", "Uint64"}
as_matlab_class(c) ==
    CASE c = "Double" -> Utf8("double") [] c = "Single" -> Utf8("single")
      [] c = "Int8" -> Utf8("int8")     [] c = "Uint8" -> Utf8("uint8")
      [] c = "Int16" -> Utf8("int16")   [] c = "Uint16" -> Utf8("uint16")
      [] c = "Int32" -> Utf8("int32")   [] c = "Uint32" -> Utf8("uint32")
      [] c = "Int64" -> Utf8("int64")   [] c = "Uint64" -> Utf8("uint64")
\* Some(class) or None
OneOf(hit) == IF hit = {} THEN None ELSE Some(CHOOSE c \in hit : TRUE)
from_matlab_class(s) ==
    OneOf({c \in NumericClass : as_matlab_class(c) = ToAsciiLower(s)})
bytes_per_element(c) ==
    CASE c \in {"Double", "Int64", "Uint64"} -> 8
      [] c \in {"Single", "Int32", "Uint32"} -> 4
      [] c \in {"Int16", "Uint16"} -> 2
      [] c \in {"Int8", "Uint8"} -> 1

\* mul_usize: checked_mul.  A usize has 64 bits and the model's integers 31:
\* a product beyond the model's range is reported as WIDE, below the
\* 2^64 at which the code reports an overflow.
mul_usize(a, b) ==
    IF a = 0 \/ b = 0 THEN 0 ELSE IF a > WIDE \div b THEN WIDE ELSE a * b
RECURSIVE ShapeProduct(_, _)
ShapeProduct(shape, i) ==
    IF i > Len(shape) THEN 1 ELSE mul_usize(shape[i], ShapeProduct(shape, i + 1))
element_count_checked(shape) ==
    IF Len(shape) = 0 THEN 0
    ELSE IF \E i \in 1..Len(shape) : shape[i] = 0 THEN 0
    ELSE ShapeProduct(shape, 1)

\* the tuple encode_leaf returns
Leaf(raw, kind, class_name, shape, complex, encoding) ==
    [raw |-> raw, kind |-> kind, class_name |-> class_name, shape |-> shape,
     complex |-> complex, encoding |-> encoding]

EncodeNumeric(arr) ==
    LET n == element_count_checked(arr.shape)
        expected == mul_usize(n, bytes_per_element(arr.class))
    IN  IF Len(arr.real_le) # expected THEN Err("Format")
        ELSE IF ~arr.complex /\ arr.imag_le.some THEN Err("Format")
        ELSE IF arr.complex /\ ~arr.imag_le.some THEN Err("Format")
        ELSE IF arr.complex /\ Len(arr.imag_le.v) # expected THEN Err("Format")
        ELSE Ok(Leaf(arr.real_le \o (IF arr.complex THEN arr.imag_le.v ELSE <<>>),
                     Utf8("numeric"), as_matlab_class(arr.class), arr.shape,
                     arr.complex, <<>>))
EncodeLogical(a) ==
    Ok(Leaf(a.data, Utf8("logical"), Utf8("logical"), a.shape, FALSE, <<>>))
EncodeChar(a) ==
    Ok(Leaf(Concat([i \in 1..Len(a.data) |-> ULe(a.data[i], 2)]),
            Utf8("char"), Utf8("char"), a.shape, FALSE, Utf8("utf-16-codeunits")))
\* per element: [miss_flag u8][len u32][bytes]
EncodeString(a) ==
    LET n == element_count_checked(a.shape)
        el(o) == IF o.some THEN <<0>> \o ULe(Len(o.v), 4) \o o.v
                 ELSE <<1>> \o ULe(0, 4)
    IN  IF Len(a.data) # n THEN Err("Format")
        ELSE Ok(Leaf(Concat([i \in 1..Len(a.data) |-> el(a.data[i])]),
                     Utf8("string"), Utf8("string"), a.shape, FALSE, Utf8("utf-8")))

\* [flags u8][tz_len u32][tz][loc_len u32][loc][fmt_len u32][fmt]
\* [mask N u8][year N i16][month N u8][day N u8][ms_day N i32]
EncodeDateTime(a) ==
    LET n == element_count_checked(a.shape)
        tz == UnwrapOrDefault(a.tz)
        loc == UnwrapOrDefault(a.locale)
        fmt == UnwrapOrDefault(a.format)
        tz_present == Len(tz) # 0
        flags == (IF tz_present THEN 1 ELSE 0) + (IF Len(fmt) > 0 THEN 2 ELSE 0)
                   + (IF ~tz_present THEN 4 ELSE 0) + (IF Len(loc) > 0 THEN 8 ELSE 0)
        raw == <<flags>> \o ULe(Len(tz), 4) \o tz \o ULe(Len(loc), 4) \o loc
                 \o ULe(Len(fmt), 4) \o fmt \o a.is_nat
                 \o Concat([i \in 1..Len(a.year) |-> SLe(a.year[i], 2)])
                 \o a.month \o a.day
                 \o Concat([i \in 1..Len(a.ms_day) |-> SLe(a.ms_day[i], 4)])
        encoding == IF tz_present
                    THEN Utf8("dt:tz-ymd+msday+nat-mask+tz+locale+format")
                    ELSE Utf8("dt:naive-ymd+msday+nat-mask+locale+format")
    IN  IF Len(a.is_nat) # n \/ Len(a.year) # n \/ Len(a.month) # n
           \/ Len(a.day) # n \/ Len(a.ms_day) # n
        THEN Err("Format")
        ELSE Ok(Leaf(raw, Utf8("datetime"), Utf8("datetime"), a.shape, FALSE, encoding))
EncodeDuration(a) ==
    LET n == element_count_checked(a.shape)
    IN  IF Len(a.is_nan) # n \/ Len(a.ms) # n THEN Err("Format")
        ELSE Ok(Leaf(a.is_nan \o Concat([i \in 1..Len(a.ms) |-> SLe(a.ms[i], 8)]),
                     Utf8("duration"), Utf8("duration"), a.shape, FALSE,
                     Utf8("ms-i64+nan-mask")))
EncodeCalendarDuration(a) ==
    LET n == element_count_checked(a.shape)
    IN  IF Len(a.is_missing) # n \/ Len(a.months) # n \/ Len(a.days) # n
           \/ Len(a.time_ms) # n
        THEN Err("Format")
        ELSE Ok(Leaf(a.is_missing
                       \o Concat([i \in 1..Len(a.months) |-> SLe(a.months[i], 4)])
                       \o Concat([i \in 1..Len(a.days) |-> SLe(a.days[i], 4)])
                       \o Concat([i \in 1..Len(a.time_ms) |-> SLe(a.time_ms[i], 8)]),
                     Utf8("calendarduration"), Utf8("calendarDuration"), a.shape,
                     FALSE, Utf8("mask+months-i32+days-i32+time-ms-i64")))
\* [n_cats u32] then per category [len u32][bytes], then [codes N u32]
EncodeCategorical(a) ==
    LET n == element_count_checked(a.shape)
    IN  IF Len(a.codes) # n THEN Err("Format")
        ELSE Ok(Leaf(ULe(Len(a.categories), 4)
                       \o Concat([i \in 1..Len(a.categories) |->
                                    ULe(Len(a.categories[i]), 4) \o a.categories[i]])
                       \o Concat([i \in 1..Len(a.codes) |-> ULe(a.codes[i], 4)]),
                     Utf8("categorical"), Utf8("categorical"), a.shape, FALSE,
                     Utf8("cats-utf8+codes-u32")))
EncodeEmptyStruct ==
    Ok(Leaf(<<>>, Utf8("struct"), Utf8("struct"), <<1, 1>>, FALSE,
            Utf8("empty-scalar-struct")))

\* encode_leaf(name, value): Ok(raw, kind, class_name, shape, complex,
\* encoding) or Err; name only appears in the error text
encode_leaf(value) ==
    CASE value.k = "Numeric" -> EncodeNumeric(value)
      [] value.k = "Logical" -> EncodeLogical(value)
      [] value.k = "Char" -> EncodeChar(value)
      [] value.k = "String" -> EncodeString(value)
      [] value.k = "DateTime" -> EncodeDateTime(value)
      [] value.k = "Duration" -> EncodeDuration(value)
      [] value.k = "CalendarDuration" -> EncodeCalendarDuration(value)
      [] value.k = "Categorical" -> EncodeCategorical(value)
      [] value.k = "EmptyStruct" -> EncodeEmptyStruct
      [] value.k = "Struct" -> Err("Unsupported")

(***************************************************************************)
(* FieldMeta and Header (header.rs).  crc32 is a 32-bit word (four bytes,  *)
(* low byte first); the other numbers are integers of the model.           *)
(***************************************************************************)
FieldMeta(name, kind, class_name, shape, complex, encoding, compression, offset, csize, usize, crc32) ==
    [name |-> name, kind |-> kind, class_name |-> class_name, shape |-> shape,
     complex |-> complex, encoding |-> encoding, compression |-> compression,
     offset |-> offset, csize |-> csize, usize |-> usize, crc32 |-> crc32]
Header(format, magic, version, endianness, order, root, created_utc, matlab_version, fields, payload_start, file_size, header_crc32_hex) ==
    [format |-> format, magic |-> magic, version |-> version,
     endianness |-> endianness, order |-> order, root |-> root,
     created_utc |-> created_utc, matlab_version |-> matlab_version,
     fields |-> fields, payload_start |-> payload_start,
     file_size |-> file_size, header_crc32_hex |-> header_crc32_hex]

(***************************************************************************)
(* decode_leaf.  idx counts bytes from 0 as in the code; raw[idx + 1] is   *)
(* the byte at idx.  `idx + len > raw.len()` is written                    *)
(* `len > Len(raw) - idx`, which keeps the sum inside the model's range.   *)
(***************************************************************************)
Rd32(raw, idx) == U32FromLe(Slice(raw, idx + 1, idx + 4))
Bytes(raw, idx, len) == Slice(raw, idx + 1, idx + len)

DecodeNumericParts(field, shape, class, part_bytes, raw) ==
    IF ~field.complex
    THEN IF Len(raw) # part_bytes THEN Err("Format")
         ELSE Ok(Numeric(class, shape, FALSE, raw, None))
    ELSE IF part_bytes > WIDE \div 2 \/ Len(raw) # 2 * part_bytes THEN Err("Format")
         ELSE Ok(Numeric(class, shape, TRUE, Bytes(raw, 0, part_bytes),
                         Some(Bytes(raw, part_bytes, part_bytes))))
DecodeNumericAs(field, shape, n, raw, cls) ==
    IF ~cls.some THEN Err("Unsupported")
    ELSE DecodeNumericParts(field, shape, cls.v, mul_usize(n, bytes_per_element(cls.v)), raw)
DecodeNumeric(field, shape, n, raw) ==
    DecodeNumericAs(field, shape, n, raw, from_matlab_class(field.class_name))
DecodeLogical(shape, n, raw) ==
    IF Len(raw) # n THEN Err("Format") ELSE Ok(Logical(shape, raw))
DecodeChar(shape, n, raw) ==
    IF n > WIDE \div 2 \/ Len(raw) # n * 2 THEN Err("Format")
    ELSE Ok(Char(shape, [i \in 1..n |-> U16FromLe(Bytes(raw, (i - 1) * 2, 2))]))
\* the loop `for _ in 0..n` of the string decoder, from element i at idx
RECURSIVE DecodeStringLoop(_, _, _, _, _)
DecodeStringLoop(raw, n, i, idx, data) ==
    IF i > n THEN Ok(data)
    ELSE IF idx + 1 + 4 > Len(raw) THEN Err("Format")
    ELSE LET Element(miss_flag, len) ==
                 IF len > Len(raw) - (idx + 5) THEN Err("Format")
                 ELSE IF miss_flag # 0
                 THEN DecodeStringLoop(raw, n, i + 1, idx + 5 + len, Append(data, None))
                 ELSE IF ~IsUtf8(Bytes(raw, idx + 5, len)) THEN Err("Format")
                 ELSE DecodeStringLoop(raw, n, i + 1, idx + 5 + len,
                                       Append(data, Some(Bytes(raw, idx + 5, len))))
         IN  Element(raw[idx + 1], Rd32(raw, idx + 1))
StringOf(shape, r) == IF r.ok THEN Ok(String(shape, r.v)) ELSE r
DecodeString(shape, n, raw) == StringOf(shape, DecodeStringLoop(raw, n, 1, 0, <<>>))

\* a length-prefixed optional text at idx: Err, or Ok of the text (Some only
\* when its length is positive) and the index after it
DecodeTextOf(raw, idx, len) ==
    IF len > Len(raw) - (idx + 4) THEN Err("Format")
    ELSE IF len > 0 /\ ~IsUtf8(Bytes(raw, idx + 4, len)) THEN Err("Format")
    ELSE Ok([text |-> IF len > 0 THEN Some(Bytes(raw, idx + 4, len)) ELSE None,
             next |-> idx + 4 + len])
DecodeOptText(raw, idx) == DecodeTextOf(raw, idx, Rd32(raw, idx))
\* the arrays of the date-time decoder, which start at idx: mask, year,
\* month, day, ms_day
DecodeDateTimeArrays(shape, n, raw, tz, loc, fmt, idx) ==
    IF n > Len(raw) - idx THEN Err("Format")
    ELSE IF n > (Len(raw) - idx - n) \div 8 THEN Err("Format")
    ELSE Ok(DateTime(shape, tz, loc, fmt, Bytes(raw, idx, n),
              [i \in 1..n |-> I16FromLe(Bytes(raw, idx + n + 2 * (i - 1), 2))],
              Bytes(raw, idx + 3 * n, n), Bytes(raw, idx + 4 * n, n),
              [i \in 1..n |-> I32FromLe(Bytes(raw, idx + 5 * n + 4 * (i - 1), 4))]))
DecodeDateTimeFmt(shape, n, raw, tz, loc, fmt) ==
    IF ~fmt.ok THEN fmt
    ELSE DecodeDateTimeArrays(shape, n, raw, tz, loc, fmt.v.text, fmt.v.next)
DecodeDateTimeLoc(shape, n, raw, tz, loc) ==
    IF ~loc.ok THEN loc
    ELSE DecodeDateTimeFmt(shape, n, raw, tz, loc.v.text, DecodeOptText(raw, loc.v.next))
DecodeDateTimeTz(shape, n, raw, tz) ==
    IF ~tz.ok THEN tz
    ELSE DecodeDateTimeLoc(shape, n, raw, tz.v.text, DecodeOptText(raw, tz.v.next))
DecodeDateTime(shape, n, raw) ==
    IF Len(raw) < 1 + 4 + 4 + 4 THEN Err("Format")
    ELSE DecodeDateTimeTz(shape, n, raw, DecodeOptText(raw, 1))
DecodeDuration(shape, n, raw) ==
    IF n > WIDE \div 9 \/ Len(raw) # n + n * 8 THEN Err("Format")
    ELSE Ok(Duration(shape, Bytes(raw, 0, n),
                     [i \in 1..n |-> I64FromLe(Bytes(raw, n + 8 * (i - 1), 8))]))
DecodeCalendarDuration(shape, n, raw) ==
    IF n > WIDE \div 17 \/ Len(raw) # n + n * 4 + n * 4 + n * 8 THEN Err("Format")
    ELSE Ok(CalendarDuration(shape, Bytes(raw, 0, n),
              [i \in 1..n |-> I32FromLe(Bytes(raw, n + 4 * (i - 1), 4))],
              [i \in 1..n |-> I32FromLe(Bytes(raw, 5 * n + 4 * (i - 1), 4))],
              [i \in 1..n |-> I64FromLe(Bytes(raw, 9 * n + 8 * (i - 1), 8))]))
\* the loop `for _ in 0..n_cats` of the categorical decoder
RECURSIVE DecodeCategoriesLoop(_, _, _, _, _)
DecodeCategoriesLoop(raw, n_cats, i, idx, cats) ==
    IF i > n_cats THEN Ok([categories |-> cats, next |-> idx])
    ELSE IF idx + 4 > Len(raw) THEN Err("Format")
    ELSE LET Category(len) ==
                 IF len > Len(raw) - (idx + 4) THEN Err("Format")
                 ELSE IF ~IsUtf8(Bytes(raw, idx + 4, len)) THEN Err("Format")
                 ELSE DecodeCategoriesLoop(raw, n_cats, i + 1, idx + 4 + len,
                                           Append(cats, Bytes(raw, idx + 4, len)))
         IN  Category(Rd32(raw, idx))
DecodeCodes(shape, n, raw, c) ==
    IF ~c.ok THEN c
    ELSE IF n > WIDE \div 4 \/ Len(raw) - c.v.next # n * 4 THEN Err("Format")
    ELSE Ok(Categorical(shape, c.v.categories,
              [i \in 1..n |-> U32FromLe(Bytes(raw, c.v.next + 4 * (i - 1), 4))]))
DecodeCategorical(shape, n, raw) ==
    IF Len(raw) < 4 THEN Err("Format")
    ELSE DecodeCodes(shape, n, raw, DecodeCategoriesLoop(raw, Rd32(raw, 0), 1, 4, <<>>))

DecodeKind(field, raw, kind, shape, n) ==
        CASE kind = Utf8("struct") -> Ok(EmptyStruct)
          [] kind = Utf8("numeric") -> DecodeNumeric(field, shape, n, raw)
          [] kind = Utf8("logical") -> DecodeLogical(shape, n, raw)
          [] kind = Utf8("char") -> DecodeChar(shape, n, raw)
          [] kind = Utf8("string") -> DecodeString(shape, n, raw)
          [] kind = Utf8("datetime") -> DecodeDateTime(shape, n, raw)
          [] kind = Utf8("duration") -> DecodeDuration(shape, n, raw)
          [] kind = Utf8("calendarduration") -> DecodeCalendarDuration(shape, n, raw)
          [] kind = Utf8("categorical") -> DecodeCategorical(shape, n, raw)
          [] OTHER -> Err("Unsupported")
\* decode_leaf(field, raw): kind is compared in lower case
decode_leaf(field, raw) ==
    DecodeKind(field, raw, ToAsciiLower(field.kind), field.shape,
               element_count_checked(field.shape))

(***************************************************************************)
(* Trees: flatten_to_leaves, assign_by_path, GbfValue::get_path.  A        *)
(* BTreeMap<String, GbfValue> is a function from keys to values.           *)
(***************************************************************************)
EmptyMap == <<>>
MapInsert(m, key, v) == [x \in (DOMAIN m) \cup {key} |-> IF x = key THEN v ELSE m[x]]
ContainsDot(s) == \E i \in 1..Len(s) : s[i] = DOT

\* sub holds the results of the members in order: the first Err of them, or
\* Ok of all their pairs
FirstErr(sub, bad) ==
    IF bad # {} THEN sub[CHOOSE i \in bad : \A j \in bad : i <= j]
    ELSE Ok(Concat([i \in 1..Len(sub) |-> sub[i].v]))
FirstErrOrAll(sub) == FirstErr(sub, {i \in 1..Len(sub) : ~sub[i].ok})
\* flatten_to_leaves(value, prefix, out): Ok of the (name, leaf) pairs pushed,
\* in order, or the first error
RECURSIVE flatten_to_leaves(_, _)
flatten_to_leaves(value, prefix) ==
    IF value.k = "Struct"
    THEN LET Member(key) ==
                 IF ContainsDot(key) THEN Err("Unsupported")
                 ELSE flatten_to_leaves(value.m[key],
                                        IF prefix = <<>> THEN key
                                        ELSE prefix \o <<DOT>> \o key)
             Each(keys) == FirstErrOrAll([i \in 1..Len(keys) |-> Member(keys[i])])
         IN  Each(SortedStrs(DOMAIN value.m))
    ELSE Ok(<< <<IF prefix = <<>> THEN Utf8("data") ELSE prefix, value>> >>)

\* assign_by_path(root, path, value): Ok of the map after the insertion
RECURSIVE AssignParts(_, _, _, _)
AssignParts(cur, parts, i, value) ==
    IF parts[i] = <<>> THEN Err("Format")
    ELSE IF i = Len(parts) THEN Ok(MapInsert(cur, parts[i], value))
    ELSE LET entry == IF parts[i] \in DOMAIN cur THEN cur[parts[i]]
                      ELSE Struct(EmptyMap)
         IN  IF entry.k # "Struct" THEN Err("Format")
             ELSE LET r == AssignParts(entry.m, parts, i + 1, value)
                  IN  IF r.ok THEN Ok(MapInsert(cur, parts[i], Struct(r.v))) ELSE r
assign_by_path(root, path, value) ==
    IF path = <<>> THEN Err("Format")
    ELSE AssignParts(root, SplitDots(path), 1, value)

\* GbfValue::get_path: Some(value) or None
RECURSIVE GetParts(_, _, _)
GetParts(cur, parts, i) ==
    IF i > Len(parts) THEN Some(cur)
    ELSE IF cur.k # "Struct" THEN None
    ELSE IF parts[i] \notin DOMAIN cur.m THEN None
    ELSE GetParts(cur.m[parts[i]], parts, i + 1)
get_path(value, path) ==
    IF path = <<>> THEN Some(value) ELSE GetParts(value, SplitDots(path), 1)

(***************************************************************************)
(* The writer's compression decision.                                      *)
(***************************************************************************)
should_try_compress(kind, class_name, raw) ==
    IF Len(raw) < COMPRESS_THRESHOLD_BYTES THEN FALSE
    ELSE IF kind = Utf8("numeric")
            /\ (class_name = Utf8("double") \/ class_name = Utf8("single"))
            /\ Len(raw) < AUTO_COMPRESS_THRESHOLD_BYTES
    THEN FALSE
    ELSE LET sample_len == Min(Len(raw), AUTO_ENTROPY_SAMPLE_BYTES)
             unique == Cardinality({raw[i] : i \in 1..sample_len})
         IN  IF sample_len = 0 THEN FALSE
             \* unique / sample_len <= 0.95
             ELSE unique * AUTO_ENTROPY_MAX_UNIQUE_RATIO_DEN
                    <= AUTO_ENTROPY_MAX_UNIQUE_RATIO_NUM * sample_len

CompressionMode == {"Auto", "Always", "Never"}
WriteOptions(compression, compression_mode, compression_level, crc, pretty_header) ==
    [compression |-> compression, compression_mode |-> compression_mode,
     compression_level |-> compression_level, crc |-> crc,
     pretty_header |-> pretty_header]
ReadOptions(validate) == [validate |-> validate]

(***************************************************************************)
(* The header as JSON text: serde_json::to_string and to_string_pretty of  *)
(* the derived Serialize of Header and FieldMeta (fields in declaration    *)
(* order, class_name renamed "class").                                     *)
(***************************************************************************)
\* the decimal digits of a natural number, as ASCII
DecDigits(v) ==
    LET nd == CHOOSE d \in 1..10 : v < 10 ^ d /\ (d = 1 \/ v >= 10 ^ (d - 1))
    IN  IF v >= 1000000000
        THEN [i \in 1..10 |-> 48 + ((v \div (10 ^ (10 - i))) % 10)]
        ELSE [i \in 1..nd |-> 48 + ((v \div (10 ^ (nd - i))) % 10)]
\* quotient and remainder of a 32-bit word by 100000
WordDivMod(w) ==
    LET d == 100000
        c4 == w[4]
        c3 == (c4 % d) * 256 + w[3]
        c2 == (c3 % d) * 256 + w[2]
        c1 == (c2 % d) * 256 + w[1]
    IN  [q |-> (((c4 \div d) * 256 + (c3 \div d)) * 256 + (c2 \div d)) * 256 + (c1 \div d),
         r |-> c1 % d]
\* the decimal digits of a 32-bit word
DecQuotRem(qr) ==
    IF qr.q = 0 THEN DecDigits(qr.r)
    ELSE DecDigits(qr.q) \o [i \in 1..5 |-> 48 + ((qr.r \div (10 ^ (5 - i))) % 10)]
DecWord(w) == DecQuotRem(WordDivMod(w))

HexDigitLower(d) == IF d < 10 THEN 48 + d ELSE 87 + d
\* serde_json's escape of one byte of a string
EscapeByte(c) ==
    CASE c = 34 -> <<92, 34>>
      [] c = 92 -> <<92, 92>>
      [] c = 8 -> <<92, 98>>
      [] c = 12 -> <<92, 102>>
      [] c = 10 -> <<92, 110>>
      [] c = 13 -> <<92, 114>>
      [] c = 9 -> <<92, 116>>
      [] c < 32 /\ c \notin {8, 9, 10, 12, 13} ->
            <<92, 117, 48, 48, HexDigitLower(c \div 16), HexDigitLower(c % 16)>>
      [] OTHER -> <<c>>
JsonString(s) == <<34>> \o Concat([i \in 1..Len(s) |-> EscapeByte(s[i])]) \o <<34>>
JsonBool(b) == IF b THEN Utf8("true") ELSE Utf8("false")

\* the formatter: pretty puts each member on its own line, indented by two
\* spaces per level, and ": " after a key; compact puts nothing
Indent(level, pretty) ==
    IF pretty THEN <<10>> \o [i \in 1..(2 * level) |-> 32] ELSE <<>>
JsonArray(items, level, pretty) ==
    IF Len(items) = 0 THEN Utf8("[]")
    ELSE <<91>>
           \o Concat([i \in 1..Len(items) |->
                        (IF i > 1 THEN <<44>> ELSE <<>>)
                          \o Indent(level + 1, pretty) \o items[i]])
           \o Indent(level, pretty) \o <<93>>
\* members: a sequence of <<key, value text>>
JsonObject(members, level, pretty) ==
    <<123>>
      \o Concat([i \in 1..Len(members) |->
                   (IF i > 1 THEN <<44>> ELSE <<>>)
                     \o Indent(level + 1, pretty) \o JsonString(Utf8(members[i][1]))
                     \o (IF pretty THEN <<58, 32>> ELSE <<58>>) \o members[i][2]])
      \o Indent(level, pretty) \o <<125>>

FieldMetaJson(f, level, pretty) ==
    JsonObject(<< <<"name", JsonString(f.name)>>,
                  <<"kind", JsonString(f.kind)>>,
                  <<"class", JsonString(f.class_name)>>,
                  <<"shape", JsonArray([i \in 1..Len(f.shape) |-> DecDigits(f.shape[i])],
                                       level + 1, pretty)>>,
                  <<"complex", JsonBool(f.complex)>>,
                  <<"encoding", JsonString(f.encoding)>>,
                  <<"compression", JsonString(f.compression)>>,
                  <<"offset", DecDigits(f.offset)>>,
                  <<"csize", DecDigits(f.csize)>>,
                  <<"usize", DecDigits(f.usize)>>,
                  <<"crc32", DecWord(f.crc32)>> >>, level, pretty)
\* serde_json::to_string(&header) / to_string_pretty(&header)
HeaderJson(h, pretty) ==
    JsonObject(<< <<"format", JsonString(h.format)>>,
                  <<"magic", JsonString(h.magic)>>,
                  <<"version", DecDigits(h.version)>>,
                  <<"endianness", JsonString(h.endianness)>>,
                  <<"order", JsonString(h.order)>>,
                  <<"root", JsonString(h.root)>>,
                  <<"created_utc", JsonString(h.created_utc)>>,
                  <<"matlab_version", JsonString(h.matlab_version)>>,
                  <<"fields", JsonArray([i \in 1..Len(h.fields) |->
                                           FieldMetaJson(h.fields[i], 2, pretty)],
                                        1, pretty)>>,
                  <<"payload_start", DecDigits(h.payload_start)>>,
                  <<"file_size", DecDigits(h.file_size)>>,
                  <<"header_crc32_hex", JsonString(h.header_crc32_hex)>> >>,
               0, pretty)

(***************************************************************************)
(* The header CRC (header.rs).  CRC_RE and CRC_FALLBACK_RE are matched on  *)
(* the bytes of the text; \s is taken over the ASCII white space (a header *)
(* of the model holds no other).  Regex::replace rewrites the leftmost     *)
(* match only.                                                             *)
(***************************************************************************)
CrcKey == Utf8("\"header_crc32_hex\"")
CrcPlaceholder == Utf8("00000000")
IsHexDigit(c) == (c >= 48 /\ c <= 57) \/ (c >= 65 /\ c <= 70) \/ (c >= 97 /\ c <= 102)
\* the first position from j on that holds no white space (Len + 1 if none)
SkipSpace(text, j) ==
    LET stop == {p \in j..(Len(text) + 1) : p = Len(text) + 1 \/ ~IsAsciiSpace(text[p])}
    IN  CHOOSE p \in stop : \A q \in stop : p <= q
\* the position of the quote that opens the value when the text at i reads
\* "header_crc32_hex" \s* : \s* " , else 0
CrcQuoteAt(text, b) == IF b > Len(text) \/ text[b] # 34 THEN 0 ELSE b
CrcColonAt(text, a) ==
    IF a > Len(text) \/ text[a] # 58 THEN 0 ELSE CrcQuoteAt(text, SkipSpace(text, a + 1))
CrcValueQuote(text, i) ==
    IF i + Len(CrcKey) - 1 > Len(text) \/ \E j \in 1..Len(CrcKey) : text[i + j - 1] # CrcKey[j]
    THEN 0
    ELSE CrcColonAt(text, SkipSpace(text, i + Len(CrcKey)))
\* CRC_RE matches at i: the value, which opens at b, is eight hexadecimal
\* digits
CrcReValue(text, b) ==
    /\ b # 0
    /\ b + 9 <= Len(text)
    /\ \A j \in 1..8 : IsHexDigit(text[b + j])
    /\ text[b + 9] = 34
CrcReMatch(text, i) == CrcReValue(text, CrcValueQuote(text, i))
Leftmost(S) == CHOOSE p \in S : \A q \in S : p <= q
\* CRC_FALLBACK_RE matches at i: the value, which opens at b, is one or more
\* bytes up to the next quote; the position of that quote, else 0
CrcFallbackQuote(b, quotes) ==
    IF quotes = {} THEN 0 ELSE IF Leftmost(quotes) >= b + 2 THEN Leftmost(quotes) ELSE 0
CrcFallbackValue(text, b) ==
    IF b = 0 THEN 0 ELSE CrcFallbackQuote(b, {p \in (b + 1)..Len(text) : text[p] = 34})
CrcFallbackEnd(text, i) == CrcFallbackValue(text, CrcValueQuote(text, i))

\* "header_crc32_hex"$1"00000000": the eight digits after the quote at b are
\* replaced, the white space around ':' is kept
CrcReReplaceAt(header_json, b) ==
    [p \in 1..Len(header_json) |-> IF p > b /\ p <= b + 8 THEN 48 ELSE header_json[p]]
CrcReReplace(header_json, hits) ==
    IF hits = {} THEN header_json
    ELSE CrcReReplaceAt(header_json, CrcValueQuote(header_json, Leftmost(hits)))
\* "header_crc32_hex":"00000000" in the place of the match at i
CrcFallbackReplaceAt(header_json, i) ==
    Slice(header_json, 1, i - 1) \o CrcKey \o <<58, 34>> \o CrcPlaceholder \o <<34>>
      \o Slice(header_json, CrcFallbackEnd(header_json, i) + 1, Len(header_json))
CrcFallbackReplace(header_json, fhits) ==
    IF fhits = {} THEN header_json ELSE CrcFallbackReplaceAt(header_json, Leftmost(fhits))
\* replaced is what CRC_RE.replace returned
CrcReplaced(header_json, replaced) ==
    IF replaced = header_json
    THEN CrcFallbackReplace(header_json,
                            {i \in 1..Len(header_json) : CrcFallbackEnd(header_json, i) # 0})
    ELSE replaced
header_json_with_placeholder_crc(header_json) ==
    CrcReplaced(header_json,
                CrcReReplace(header_json,
                             {i \in 1..Len(header_json) : CrcReMatch(header_json, i)}))

compute_header_crc32_hex_from_original_json(header_json) ==
    Hex08X(compute_crc32(header_json_with_placeholder_crc(header_json)))

\* Ok, or Err("HeaderCrcMismatch")
validate_header_crc(header, header_json) ==
    IF Trim(header.header_crc32_hex) = <<>> THEN Ok(TRUE)
    ELSE IF ToAsciiUpper(Trim(header.header_crc32_hex))
              # compute_header_crc32_hex_from_original_json(header_json)
    THEN Err("HeaderCrcMismatch")
    ELSE Ok(TRUE)

(***************************************************************************)
(* write_file, up to the bytes of the file.                                *)
(***************************************************************************)
\* now_utc_string() and env!("CARGO_PKG_VERSION") are inputs of the build
\* and of the clock; one value of each is fixed
CREATED_UTC == Utf8("2026-01-01T00:00:00Z")
MATLAB_VERSION == Utf8("rust-gbin 0.1.0")

\* the leaves of write_file: Ok of the (name, leaf) pairs, or the first error
WriteLeavesOf(value, keys) ==
    FirstErrOrAll([i \in 1..Len(keys) |-> flatten_to_leaves(value.m[keys[i]], keys[i])])
WriteLeaves(value) ==
    IF value.k = "Struct" THEN WriteLeavesOf(value, SortedStrs(DOMAIN value.m))
    ELSE Ok(<< <<Utf8("data"), value>> >>)

\* one turn of the loop over the leaves: encode, CRC, compress.  Ok of the
\* FieldMeta (offset still 0) and the stored chunk
\* stored is the chunk and compression its tag
WriteChunk(name, leaf, crc32_u, compression, stored) ==
    Ok([field |-> FieldMeta(name, leaf.kind, leaf.class_name, leaf.shape,
                            leaf.complex, leaf.encoding, compression,
                            0, Len(stored), Len(leaf.raw), crc32_u),
        chunk |-> stored])
\* a writer that keeps comp whenever it was tried, smaller or not
WriteStoredWhenTried(name, leaf, crc32_u, try_compress, comp) ==
    IF try_compress
    THEN WriteChunk(name, leaf, crc32_u, Utf8("zlib"), comp)
    ELSE WriteChunk(name, leaf, crc32_u, Utf8("none"), leaf.raw)
\* comp is used only if it is smaller than raw
WriteStored(name, leaf, crc32_u, try_compress, comp) ==
    IF try_compress /\ Len(comp) < Len(leaf.raw)
    THEN WriteChunk(name, leaf, crc32_u, Utf8("zlib"), comp)
    ELSE WriteChunk(name, leaf, crc32_u, Utf8("none"), leaf.raw)
try_compress(leaf, opts) ==
    IF opts.compression
    THEN CASE opts.compression_mode = "Never" -> FALSE
           [] opts.compression_mode = "Always" ->
                 Len(leaf.raw) >= COMPRESS_THRESHOLD_BYTES
           [] opts.compression_mode = "Auto" ->
                 should_try_compress(leaf.kind, leaf.class_name, leaf.raw)
    ELSE FALSE
WriteEncoded(name, e, opts) ==
    IF ~e.ok THEN e
    ELSE WriteStored(name, e.v,
                     IF opts.crc THEN compute_crc32(e.v.raw) ELSE CrcZero,
                     try_compress(e.v, opts),
                     zlib_compress(e.v.raw, opts.compression_level))
WriteField(name, v, opts) == WriteEncoded(name, encode_leaf(v), opts)
\* a writer that leaves every offset at 0
WithOffsetsLeftZero(fields) == fields
\* the offsets relative to the payload start: the running sum of csize
WithOffsets(fields) ==
    [i \in 1..Len(fields) |->
        [fields[i] EXCEPT !.offset = SumRange([j \in 1..Len(fields) |-> fields[j].csize], 1, i - 1)]]

\* the locals of the fixed-point loop before its first turn
HeaderLoopInit(root_type, fields) ==
    [header |-> Header(Utf8("GBF"), Utf8("GREDBIN"), VERSION, Utf8("little"),
                       Utf8("column-major"), root_type, CREATED_UTC, MATLAB_VERSION,
                       fields, 0, 0, CrcPlaceholder),
     header_json_final |-> <<>>, header_len_final |-> 0,
     stable |-> FALSE, iter |-> 0]
\* a loop that forgets to store the sizes of the turn in the header
HeaderLoopTurnStale(st, header, json_final_nl, header_len, payload_start, file_size) ==
    [header |-> header,
     header_json_final |-> json_final_nl, header_len_final |-> header_len,
     stable |-> /\ header.payload_start = payload_start
                /\ header.file_size = file_size
                /\ st.header_len_final = header_len
                /\ st.header_json_final = json_final_nl,
     iter |-> st.iter + 1]
\* one turn of `for _ in 0..10` ends with the test for `break`, then the
\* assignments
HeaderLoopTurn(st, header, json_final_nl, header_len, payload_start, file_size) ==
    [header |-> [header EXCEPT !.payload_start = payload_start, !.file_size = file_size],
     header_json_final |-> json_final_nl, header_len_final |-> header_len,
     stable |-> /\ header.payload_start = payload_start
                /\ header.file_size = file_size
                /\ st.header_len_final = header_len
                /\ st.header_json_final = json_final_nl,
     iter |-> st.iter + 1]
HeaderLoopSizes(st, payload_bytes_total, header, json_final_nl) ==
    HeaderLoopTurn(st, header, json_final_nl, Len(json_final_nl),
                   8 + 4 + Len(json_final_nl),
                   8 + 4 + Len(json_final_nl) + payload_bytes_total)
\* 3) encode final header (with CRC)
HeaderLoopFinal(st, payload_bytes_total, pretty_header, header) ==
    HeaderLoopSizes(st, payload_bytes_total, header,
                    HeaderJson(header, pretty_header) \o <<10>>)
\* 2) compute CRC hex over the bytes with placeholder
HeaderLoopCrc(st, payload_bytes_total, pretty_header, header) ==
    HeaderLoopFinal(st, payload_bytes_total, pretty_header,
                    [header EXCEPT !.header_crc32_hex =
                        compute_header_crc32_hex_from_original_json(
                            HeaderJson(header, pretty_header) \o <<10>>)])
\* 1) encode with placeholder CRC
HeaderLoopStep(st, payload_bytes_total, pretty_header) ==
    HeaderLoopCrc(st, payload_bytes_total, pretty_header,
                  [st.header EXCEPT !.header_crc32_hex = CrcPlaceholder])
\* the loop leaves on `break` or after its last turn
HeaderLoopDone(st) == st.stable \/ st.iter >= MAX_HEADER_ITERATIONS
RECURSIVE HeaderLoop(_, _, _)
HeaderLoop(st, payload_bytes_total, pretty_header) ==
    IF HeaderLoopDone(st) THEN st
    ELSE HeaderLoop(HeaderLoopStep(st, payload_bytes_total, pretty_header),
                    payload_bytes_total, pretty_header)

\* what goes to the temporary file: magic, header_len, header, chunks
WriteBytes(fields, chunks, st) ==
    Ok([fields |-> fields, chunks |-> chunks, loop |-> st,
        bytes |-> MAGIC_BYTES \o ULe(st.header_len_final, 4)
                    \o st.header_json_final \o Concat(chunks)])
WriteHeader(root_type, opts, fields, chunks) ==
    WriteBytes(fields, chunks,
               HeaderLoop(HeaderLoopInit(root_type, fields),
                          SumRange([i \in 1..Len(chunks) |-> Len(chunks[i])], 1, Len(chunks)),
                          opts.pretty_header))
\* enc holds what the loop over the leaves made of each leaf
WriteFields(value, opts, enc, bad) ==
    IF bad # {} THEN enc[Leftmost(bad)]
    ELSE WriteHeader(IF value.k = "Struct" THEN Utf8("struct") ELSE Utf8("single"),
                     opts, WithOffsets([i \in 1..Len(enc) |-> enc[i].v.field]),
                     [i \in 1..Len(enc) |-> enc[i].v.chunk])
WriteEncodedLeaves(value, opts, enc) ==
    WriteFields(value, opts, enc, {i \in 1..Len(enc) : ~enc[i].ok})
WriteFlattened(value, opts, leaves) ==
    IF ~leaves.ok THEN leaves
    ELSE WriteEncodedLeaves(value, opts,
                            [i \in 1..Len(leaves.v) |->
                                WriteField(leaves.v[i][1], leaves.v[i][2], opts)])
\* Everything write_file computes before it touches the file system: Err, or
\* Ok of the field table, the chunks, the loop's final locals and the bytes
\* written to the temporary file
WriteImage(value, opts) == WriteFlattened(value, opts, WriteLeaves(value))

(***************************************************************************)
(* Reading JSON text (serde_json::from_str).  The text is read byte by     *)
(* byte by a pushdown reader; JsonStep is its transition.  A JSON value is *)
(* a record tagged by t: "null", "bool" (b), "num" (its text), "str" (s),  *)
(* "arr" (a, the elements) or "obj" (kv, the <<key, value>> members in     *)
(* text order).  A \u escape of a surrogate is rejected (serde_json takes  *)
(* well-formed pairs; no header of the model holds one).                   *)
(***************************************************************************)
JNull == [t |-> "null"]
JBool(b) == [t |-> "bool", b |-> b]
JNum(text) == [t |-> "num", text |-> text]
JStr(str) == [t |-> "str", s |-> str]
JArr(a) == [t |-> "arr", a |-> a]
JObj(kv) == [t |-> "obj", kv |-> kv]

IsJsonSpace(c) == c \in {32, 9, 10, 13}
IsDigit(c) == c >= 48 /\ c <= 57
HexVal(c) == IF c <= 57 THEN c - 48 ELSE IF c <= 70 THEN c - 55 ELSE c - 87
\* the UTF-8 bytes of a code point below 2^16
Utf8Encode(cp) ==
    IF cp < 128 THEN <<cp>>
    ELSE IF cp < 2048 THEN <<192 + (cp \div 64), 128 + (cp % 64)>>
    ELSE <<224 + (cp \div 4096), 128 + ((cp \div 64) % 64), 128 + (cp % 64)>>

JsonReader0 ==
    [mode |-> "val", stack |-> <<>>, isKey |-> FALSE, buf |-> <<>>,
     sub |-> "", u |-> 0, result |-> JNull]
JsonFail(P) == [P EXCEPT !.mode = "err"]
\* a value is complete: it is the result, or it joins the open container
JsonComplete(P, v) ==
    IF Len(P.stack) = 0 THEN [P EXCEPT !.mode = "done", !.result = v, !.buf = <<>>]
    ELSE LET top == P.stack[Len(P.stack)]
             item == IF top.t = "arr" THEN v ELSE <<top.key, v>>
         IN  [P EXCEPT !.mode = "after", !.buf = <<>>,
                       !.stack[Len(P.stack)].items = Append(top.items, item)]
JsonOpen(P, t) ==
    [P EXCEPT !.stack = Append(P.stack, [t |-> t, items |-> <<>>, key |-> <<>>]),
              !.mode = IF t = "arr" THEN "arr0" ELSE "obj0"]
JsonClose(P) ==
    LET top == P.stack[Len(P.stack)]
        Q == [P EXCEPT !.stack = SubSeq(P.stack, 1, Len(P.stack) - 1)]
    IN  JsonComplete(Q, IF top.t = "arr" THEN JArr(top.items) ELSE JObj(top.items))

\* the number grammar -?(0|[1-9][0-9]*)(\.[0-9]+)?([eE][+-]?[0-9]+)?: the
\* state after c, "" when c cannot follow
NumNext(sub, c) ==
    CASE sub = "neg" -> IF c = 48 THEN "zero" ELSE IF IsDigit(c) THEN "int" ELSE ""
      [] sub = "zero" -> IF c = 46 THEN "dot" ELSE IF c \in {69, 101} THEN "e" ELSE ""
      [] sub = "int" -> IF IsDigit(c) THEN "int" ELSE IF c = 46 THEN "dot"
                        ELSE IF c \in {69, 101} THEN "e" ELSE ""
      [] sub = "dot" -> IF IsDigit(c) THEN "frac" ELSE ""
      [] sub = "frac" -> IF IsDigit(c) THEN "frac" ELSE IF c \in {69, 101} THEN "e" ELSE ""
      [] sub = "e" -> IF c \in {43, 45} THEN "esign" ELSE IF IsDigit(c) THEN "exp" ELSE ""
      [] sub = "esign" -> IF IsDigit(c) THEN "exp" ELSE ""
      [] sub = "exp" -> IF IsDigit(c) THEN "exp" ELSE ""
NumEnds(sub) == sub \in {"zero", "int", "frac", "exp"}
Literals == <<Utf8("true"), Utf8("false"), Utf8("null")>>
LiteralValue(text) ==
    IF text = Utf8("true") THEN JBool(TRUE)
    ELSE IF text = Utf8("false") THEN JBool(FALSE) ELSE JNull

\* the reader between tokens
JsonStepOuter(P, c) ==
    LET m == P.mode
        startsValue == m \in {"val", "arr0"}
    IN  IF IsJsonSpace(c) THEN P
        ELSE IF startsValue /\ c = 34 THEN [P EXCEPT !.mode = "str", !.isKey = FALSE, !.buf = <<>>]
        ELSE IF startsValue /\ c = 123 THEN JsonOpen(P, "obj")
        ELSE IF startsValue /\ c = 91 THEN JsonOpen(P, "arr")
        ELSE IF startsValue /\ c = 45 THEN [P EXCEPT !.mode = "num", !.sub = "neg", !.buf = <<c>>]
        ELSE IF startsValue /\ c = 48 THEN [P EXCEPT !.mode = "num", !.sub = "zero", !.buf = <<c>>]
        ELSE IF startsValue /\ IsDigit(c) THEN [P EXCEPT !.mode = "num", !.sub = "int", !.buf = <<c>>]
        ELSE IF startsValue /\ c \in {116, 102, 110} THEN [P EXCEPT !.mode = "lit", !.buf = <<c>>]
        ELSE IF m = "arr0" /\ c = 93 THEN JsonClose(P)
        ELSE IF m \in {"obj0", "key"} /\ c = 34 THEN [P EXCEPT !.mode = "str", !.isKey = TRUE, !.buf = <<>>]
        ELSE IF m = "obj0" /\ c = 125 THEN JsonClose(P)
        ELSE IF m = "colon" /\ c = 58 THEN [P EXCEPT !.mode = "val"]
        ELSE IF m = "after" /\ c = 44
        THEN [P EXCEPT !.mode = IF P.stack[Len(P.stack)].t = "arr" THEN "val" ELSE "key"]
        ELSE IF m = "after" /\ c = 93 /\ P.stack[Len(P.stack)].t = "arr" THEN JsonClose(P)
        ELSE IF m = "after" /\ c = 125 /\ P.stack[Len(P.stack)].t = "obj" THEN JsonClose(P)
        ELSE JsonFail(P)

\* the end of a string: a key waits for its ':', a value is complete
JsonEndString(P) ==
    IF P.isKey
    THEN [P EXCEPT !.mode = "colon", !.stack[Len(P.stack)].key = P.buf, !.buf = <<>>]
    ELSE JsonComplete(P, JStr(P.buf))
EscapeTarget(c) ==
    CASE c = 34 -> 34 [] c = 92 -> 92 [] c = 47 -> 47 [] c = 98 -> 8
      [] c = 102 -> 12 [] c = 110 -> 10 [] c = 114 -> 13 [] c = 116 -> 9
      [] OTHER -> -1
JsonStep(P, c) ==
    CASE P.mode = "err" -> P
      [] P.mode = "str" ->
            IF c = 34 THEN JsonEndString(P)
            ELSE IF c = 92 THEN [P EXCEPT !.mode = "esc"]
            ELSE IF c < 32 THEN JsonFail(P)
            ELSE [P EXCEPT !.buf = Append(P.buf, c)]
      [] P.mode = "esc" ->
            IF c = 117 THEN [P EXCEPT !.mode = "u", !.u = 0, !.sub = ""]
            ELSE IF EscapeTarget(c) >= 0
            THEN [P EXCEPT !.mode = "str", !.buf = Append(P.buf, EscapeTarget(c))]
            ELSE JsonFail(P)
      [] P.mode = "u" ->
            \* sub counts the digits read, one "x" per digit
            IF ~IsHexDigit(c) THEN JsonFail(P)
            ELSE IF Len(P.sub) < 3
            THEN [P EXCEPT !.u = P.u * 16 + HexVal(c), !.sub = P.sub \o "x"]
            ELSE LET cp == P.u * 16 + HexVal(c)
                 IN  IF cp >= 55296 /\ cp <= 57343 THEN JsonFail(P)
                     ELSE [P EXCEPT !.mode = "str", !.sub = "",
                                    !.buf = P.buf \o Utf8Encode(cp)]
      [] P.mode = "num" ->
            IF NumNext(P.sub, c) # ""
            THEN [P EXCEPT !.sub = NumNext(P.sub, c), !.buf = Append(P.buf, c)]
            ELSE IF NumEnds(P.sub) THEN JsonStepOuter(JsonComplete(P, JNum(P.buf)), c)
            ELSE JsonFail(P)
      [] P.mode = "lit" ->
            LET text == Append(P.buf, c)
            IN  IF \E i \in 1..3 : Literals[i] = text THEN JsonComplete(P, LiteralValue(text))
                ELSE IF \E i \in 1..3 : StartsWith(Literals[i], text) THEN [P EXCEPT !.buf = text]
                ELSE JsonFail(P)
      [] P.mode = "done" -> IF IsJsonSpace(c) THEN P ELSE JsonFail(P)
      [] OTHER -> JsonStepOuter(P, c)
\* the reader after text[lo..hi]; the left half is read before the right
RECURSIVE JsonFold(_, _, _, _)
JsonFold(P, text, lo, hi) ==
    IF lo > hi THEN P
    ELSE IF lo = hi THEN JsonStep(P, text[lo])
    ELSE LET mid == (lo + hi) \div 2
             left == JsonFold(P, text, lo, mid)
         IN  IF left.mode = "err" THEN left ELSE JsonFold(left, text, mid + 1, hi)
\* Ok of the value the text holds, or Err("Json")
\* the end of the text ends a number
JsonAtEnd(P) == IF P.mode = "num" /\ NumEnds(P.sub) THEN JsonComplete(P, JNum(P.buf)) ELSE P
JsonResult(Q) == IF Q.mode = "done" THEN Ok(Q.result) ELSE Err("Json")
JsonParse(text) == JsonResult(JsonAtEnd(JsonFold(JsonReader0, text, 1, Len(text))))

(***************************************************************************)
(* Numbers of the header.  A u64 of the code is an integer of the model,   *)
(* reported as WIDE beyond 2^31 - 1; a u32 is a word.  A float is read as  *)
(* its decimal expansion (f64 rounding of the last bits is not modelled).  *)
(***************************************************************************)
StripZeros(ds) ==
    LET nz == {i \in 1..Len(ds) : ds[i] # 48}
    IN  IF nz = {} THEN <<>> ELSE Slice(ds, Leftmost(nz), Len(ds))
\* the value of at most nine digits
SmallNat(ds) == SumRange([i \in 1..Len(ds) |-> (ds[i] - 48) * 10 ^ (Len(ds) - i)], 1, Len(ds))
\* ten digits: the first nine as hi, then the last
NatOfTen(hi, last) ==
    IF hi > 214748364 \/ (hi = 214748364 /\ last > 55) THEN WIDE
    ELSE hi * 10 + (last - 48)
NatOf(ds) ==
    IF Len(ds) <= 9 THEN SmallNat(ds)
    ELSE IF Len(ds) > 10 THEN WIDE
    ELSE NatOfTen(SmallNat(Slice(ds, 1, 9)), ds[10])
DigitsToNat(digits) == NatOf(StripZeros(digits))
U32_MAX == AllOnes
\* min(value, u32::MAX) as a word
\* ten digits: the first five as q, the last five as r;
\* q * 100000 + r = (q * 390) * 256 + (q * 160 + r)
WordOfTen(q, r) ==
    IF q > 42949 \/ (q = 42949 /\ r > 67295) THEN U32_MAX
    ELSE <<(q * 160 + r) % 256>> \o ULe(q * 390 + ((q * 160 + r) \div 256), 3)
WordOf(ds) ==
    IF Len(ds) <= 9 THEN ULe(SmallNat(ds), 4)
    ELSE IF Len(ds) > 10 THEN U32_MAX
    ELSE WordOfTen(SmallNat(Slice(ds, 1, 5)), SmallNat(Slice(ds, 6, 10)))
DigitsToWord(digits) == WordOf(StripZeros(digits))
U64_MAX_DIGITS == Utf8("18446744073709551615")
ExceedsU64(digits) ==
    LET ds == StripZeros(digits)
    IN  Len(ds) > 20 \/ (Len(ds) = 20 /\ StrLess(U64_MAX_DIGITS, ds))
ExceedsU32(digits) ==
    LET ds == StripZeros(digits)
    IN  Len(ds) > 10 \/ (Len(ds) = 10 /\ StrLess(Utf8("4294967295"), ds))
\* digits + 1
IncDigits(ds) ==
    LET n == Len(ds)
        not9 == {i \in 1..n : ds[i] # 57}
        k == IF not9 = {} THEN 0 ELSE CHOOSE i \in not9 : \A j \in not9 : i >= j
    IN  IF k = 0 THEN <<49>> \o [i \in 1..n |-> 48]
        ELSE [i \in 1..n |-> IF i < k THEN ds[i] ELSE IF i = k THEN ds[k] + 1 ELSE 48]

\* the parts of a number's text
FirstOrZero(S) == IF S = {} THEN 0 ELSE Leftmost(S)
\* dot and e are the positions of the point and of the exponent mark (0 if
\* there is none)
NumPartsAt(text, dot, e) ==
    [neg |-> text[1] = 45,
     int |-> Slice(text, IF text[1] = 45 THEN 2 ELSE 1,
                   IF dot # 0 THEN dot - 1 ELSE IF e # 0 THEN e - 1 ELSE Len(text)),
     frac |-> IF dot = 0 THEN <<>>
              ELSE Slice(text, dot + 1, IF e # 0 THEN e - 1 ELSE Len(text)),
     isInt |-> dot = 0 /\ e = 0,
     expNeg |-> e # 0 /\ text[e + 1] = 45,
     exp |-> IF e = 0 THEN <<>>
             ELSE Slice(text, IF text[e + 1] \in {43, 45} THEN e + 2 ELSE e + 1, Len(text))]
NumParts(text) ==
    NumPartsAt(text, FirstOrZero({i \in 1..Len(text) : text[i] = 46}),
               FirstOrZero({i \in 1..Len(text) : text[i] \in {69, 101}}))
MAX_F64_EXP10 == 309
\* the position of the decimal point of a float within int \o frac
FloatPointAt(np, ex) == Len(np.int) + (IF np.expNeg THEN 0 - ex ELSE ex)
FloatPoint(np) == FloatPointAt(np, Min(DigitsToNat(np.exp), 100000))
\* serde_json reports a float beyond the range of f64 as an error
NumOutOfRange(np) ==
    ~np.isInt /\ StripZeros(np.int \o np.frac) # <<>>
      /\ FloatPoint(np) - (Len(np.int \o np.frac) - Len(StripZeros(np.int \o np.frac))) > MAX_F64_EXP10
\* f.round().max(0.0) of a float, as digits
\* D holds the digits and pt the position of the point within them
FloatWhole(D, pt) == [i \in 1..pt |-> IF i <= Len(D) THEN D[i] ELSE 48]
FloatRoundAt(np, D, pt) ==
    IF np.neg \/ pt < 0 THEN <<48>>
    ELSE IF pt + 1 <= Len(D) /\ D[pt + 1] >= 53 THEN IncDigits(FloatWhole(D, pt))
    ELSE FloatWhole(D, pt)
FloatRoundDigits(np) == FloatRoundAt(np, np.int \o np.frac, FloatPoint(np))
\* the digits of the u64 (before any clamp) that de_u64, de_u32 and
\* de_vec_u64 take from a Number
DigitsOfParts(np) ==
    IF np.isInt THEN (IF np.neg THEN <<48>> ELSE np.int) ELSE FloatRoundDigits(np)
NumberDigits(v) == DigitsOfParts(NumParts(v.text))
\* str::parse::<u64>: an optional '+' and one or more digits; Some(digits)
ParseDigits(str) ==
    LET ds == IF Len(str) > 0 /\ str[1] = 43 THEN Slice(str, 2, Len(str)) ELSE str
    IN  IF Len(ds) > 0 /\ \A i \in 1..Len(ds) : IsDigit(ds[i]) THEN Some(ds) ELSE None

de_u64(v) ==
    CASE v.t = "num" -> DigitsToNat(NumberDigits(v))
      [] v.t = "str" ->
            LET d == ParseDigits(v.s)
            IN  IF d.some /\ ~ExceedsU64(d.v) THEN DigitsToNat(d.v) ELSE 0
      [] OTHER -> 0
de_u32(v) ==
    CASE v.t = "num" -> DigitsToWord(NumberDigits(v))
      [] v.t = "str" ->
            LET d == ParseDigits(v.s)
            IN  IF d.some /\ ~ExceedsU32(d.v) THEN DigitsToWord(d.v) ELSE CrcZero
      [] OTHER -> CrcZero
de_vec_u64(v) ==
    IF v.t = "arr"
    THEN [i \in 1..Len(v.a) |->
            IF v.a[i].t = "num" THEN DigitsToNat(NumberDigits(v.a[i])) ELSE 0]
    ELSE <<>>

(***************************************************************************)
(* The derived Deserialize of Header and FieldMeta: a struct is read from  *)
(* an object (unknown keys ignored, a repeated key an error) or from an    *)
(* array (the fields in declaration order); a field without                *)
(* #[serde(default)] must be present; String, bool and u32 fields take     *)
(* only their own JSON type.  Every failure is Err("Json").                *)
(***************************************************************************)
FieldMetaKeys ==
    <<"name", "kind", "class", "shape", "complex", "encoding", "compression",
      "offset", "csize", "usize", "crc32">>
HeaderKeys ==
    <<"format", "magic", "version", "endianness", "order", "root", "created_utc",
      "matlab_version", "fields", "payload_start", "file_size", "header_crc32_hex">>
\* the members a struct is read from, or Err
StructMembers(v, keys) ==
    IF v.t = "obj" THEN Ok(v.kv)
    ELSE IF v.t = "arr" /\ Len(v.a) <= Len(keys)
    THEN Ok([i \in 1..Len(v.a) |-> <<Utf8(keys[i]), v.a[i]>>])
    ELSE Err("Json")
\* a float too large for f64 anywhere in the value (an error of the reader)
RECURSIVE HasBadNumber(_)
HasBadNumber(v) ==
    CASE v.t = "num" -> NumOutOfRange(NumParts(v.text))
      [] v.t = "arr" -> \E i \in 1..Len(v.a) : HasBadNumber(v.a[i])
      [] v.t = "obj" -> \E i \in 1..Len(v.kv) : HasBadNumber(v.kv[i][2])
      [] OTHER -> FALSE
Members(kv, key) == {i \in 1..Len(kv) : kv[i][1] = Utf8(key)}
Repeated(kv, keys) == \E j \in 1..Len(keys) : Cardinality(Members(kv, keys[j])) > 1
Has(kv, key) == Members(kv, key) # {}
Get(kv, key) == kv[CHOOSE i \in Members(kv, key) : TRUE][2]
\* a String field: absent takes the default "" when it has one
StringField(kv, key, required) ==
    IF ~Has(kv, key) THEN (IF required THEN Err("Json") ELSE Ok(<<>>))
    ELSE IF Get(kv, key).t = "str" THEN Ok(Get(kv, key).s) ELSE Err("Json")
BoolField(kv, key) ==
    IF ~Has(kv, key) THEN Ok(FALSE)
    ELSE IF Get(kv, key).t = "bool" THEN Ok(Get(kv, key).b) ELSE Err("Json")
\* version: u32, a non-negative integer that fits
U32OfParts(np) ==
    IF ~np.isInt \/ np.neg \/ ExceedsU32(np.int) THEN Err("Json")
    ELSE Ok(DigitsToNat(np.int))
U32Field(kv, key) ==
    IF ~Has(kv, key) \/ Get(kv, key).t # "num" THEN Err("Json")
    ELSE U32OfParts(NumParts(Get(kv, key).text))
\* a field read by de_u64: absent takes the default 0
U64Field(kv, key) == IF Has(kv, key) THEN de_u64(Get(kv, key)) ELSE 0
AllOk(rs) == \A i \in 1..Len(rs) : rs[i].ok

\* the fields of a FieldMeta as they were read, each Ok or Err
FieldMetaFromFields(kv, name, kind, class_name, complex, encoding, compression) ==
    IF ~AllOk(<<name, kind, class_name, complex, encoding, compression>>)
    THEN Err("Json")
    ELSE Ok(FieldMeta(name.v, kind.v, class_name.v,
                      IF Has(kv, "shape") THEN de_vec_u64(Get(kv, "shape")) ELSE <<>>,
                      complex.v, encoding.v, compression.v,
                      U64Field(kv, "offset"), U64Field(kv, "csize"), U64Field(kv, "usize"),
                      IF Has(kv, "crc32") THEN de_u32(Get(kv, "crc32")) ELSE CrcZero))
FieldMetaFromMembers(mem) ==
    IF ~mem.ok THEN mem
    ELSE IF Repeated(mem.v, FieldMetaKeys) THEN Err("Json")
    ELSE FieldMetaFromFields(mem.v, StringField(mem.v, "name", TRUE),
                             StringField(mem.v, "kind", TRUE),
                             StringField(mem.v, "class", TRUE),
                             BoolField(mem.v, "complex"),
                             StringField(mem.v, "encoding", FALSE),
                             StringField(mem.v, "compression", FALSE))
FieldMetaFromJson(v) == FieldMetaFromMembers(StructMembers(v, FieldMetaKeys))
\* fields: Vec<FieldMeta>, which must be present
FieldsField(kv) ==
    IF Has(kv, "fields") /\ Get(kv, "fields").t = "arr"
    THEN [i \in 1..Len(Get(kv, "fields").a) |-> FieldMetaFromJson(Get(kv, "fields").a[i])]
    ELSE <<Err("Json")>>
\* the fields of a Header as they were read, each Ok or Err
HeaderFromFields(kv, format, magic, version, endianness, order, root, created_utc, matlab_version, fields, header_crc32_hex) ==
    IF ~AllOk(<<format, magic, version, endianness, order, root, created_utc,
                matlab_version, header_crc32_hex>>)
       \/ ~AllOk(fields)
    THEN Err("Json")
    ELSE Ok(Header(format.v, magic.v, version.v, endianness.v, order.v, root.v,
                   created_utc.v, matlab_version.v,
                   [i \in 1..Len(fields) |-> fields[i].v],
                   U64Field(kv, "payload_start"), U64Field(kv, "file_size"),
                   header_crc32_hex.v))
HeaderFromMembers(v, mem) ==
    IF ~mem.ok THEN mem
    ELSE IF Repeated(mem.v, HeaderKeys) \/ HasBadNumber(v) THEN Err("Json")
    ELSE HeaderFromFields(mem.v, StringField(mem.v, "format", TRUE),
                          StringField(mem.v, "magic", TRUE),
                          U32Field(mem.v, "version"),
                          StringField(mem.v, "endianness", FALSE),
                          StringField(mem.v, "order", FALSE),
                          StringField(mem.v, "root", FALSE),
                          StringField(mem.v, "created_utc", FALSE),
                          StringField(mem.v, "matlab_version", FALSE),
                          FieldsField(mem.v),
                          StringField(mem.v, "header_crc32_hex", FALSE))
HeaderFromJson(v) == HeaderFromMembers(v, StructMembers(v, HeaderKeys))
\* serde_json::from_str::<Header>
HeaderOfParsed(v) == IF v.ok THEN HeaderFromJson(v.v) ELSE v
HeaderFromStr(header_json) == HeaderOfParsed(JsonParse(header_json))

(***************************************************************************)
(* The reader.  A file is the sequence of its bytes.  read_exact past the  *)
(* end of the file is Err("Io").                                           *)
(***************************************************************************)
\* a sum of two u64 of the model, reported as WIDE beyond the model's range
\* (checked_add_u64 overflows only at 2^64)
checked_add_u64(a, b) == IF a > WIDE - b THEN WIDE ELSE a + b
\* MAX_FIELD_USIZE = MAX_FIELD_CSIZE = 16 GiB, compared without forming 2^34
MAX_FIELD_GIB == 16
GIB == 1024 * 1024 * 1024
ExceedsFieldLimit(v) ==
    v \div GIB > MAX_FIELD_GIB \/ (v \div GIB = MAX_FIELD_GIB /\ v % GIB > 0)

\* `if opts.validate`: crc is what validate_header_crc returned
\* a validating read that checks nothing of the parsed header: not what the
\* code does
ReadHeaderValidateNone(file, opts, header, header_len, header_json, crc) ==
    Ok([header |-> header, header_len |-> header_len, header_json |-> header_json])
\* the checks of a validating read without the one of file_size: not what
\* the code does
ReadHeaderValidateNoSize(file, opts, header, header_len, header_json, crc) ==
    IF opts.validate /\ ~crc.ok THEN crc
    ELSE IF opts.validate /\ header.payload_start > 0
            /\ header.payload_start # 8 + 4 + header_len
    THEN ErrWith("Format", "payload_start mismatch")
    ELSE Ok([header |-> header, header_len |-> header_len, header_json |-> header_json])
ReadHeaderValidate(file, opts, header, header_len, header_json, crc) ==
    IF opts.validate /\ ~crc.ok THEN crc
    ELSE IF opts.validate /\ header.file_size > 0 /\ Len(file) # header.file_size
    THEN Err("FileSizeMismatch")
    ELSE IF opts.validate /\ header.payload_start > 0
            /\ header.payload_start # 8 + 4 + header_len
    THEN ErrWith("Format", "payload_start mismatch")
    ELSE Ok([header |-> header, header_len |-> header_len, header_json |-> header_json])
ReadHeaderParsed(file, opts, header_len, header_json, parsed) ==
    IF ~parsed.ok THEN Err("Json")
    ELSE ReadHeaderValidate(file, opts, parsed.v, header_len, header_json,
                            validate_header_crc(parsed.v, header_json))
ReadHeaderJson(file, opts, header_len, header_json) ==
    IF ~IsUtf8(header_json) THEN Err("Utf8")
    ELSE ReadHeaderParsed(file, opts, header_len, header_json, HeaderFromStr(header_json))
\* the header read whatever header_len says: not what the code does
ReadHeaderLenAny(file, opts, header_len) ==
    IF Len(file) - 12 < header_len THEN Err("Io")
    ELSE ReadHeaderJson(file, opts, header_len, Slice(file, 13, 12 + header_len))
ReadHeaderLen(file, opts, header_len) ==
    IF header_len < 2 \/ header_len > MAX_HEADER_LEN
    THEN ErrWith("Format", "invalid header_len")
    ELSE IF Len(file) - 12 < header_len THEN Err("Io")
    ELSE ReadHeaderJson(file, opts, header_len, Slice(file, 13, 12 + header_len))
\* Ok of (header, header_len, header_json), or the error
read_header_and_json(file, opts) ==
    IF Len(file) < 8 THEN Err("Io")
    ELSE IF Slice(file, 1, 8) # MAGIC_BYTES THEN ErrWith("Format", "bad magic")
    ELSE IF Len(file) < 12 THEN Err("Io")
    ELSE ReadHeaderLen(file, opts, U32FromLe(Slice(file, 9, 12)))

field_payload_start(header_len, header_payload_start) ==
    IF header_payload_start > 0 THEN header_payload_start ELSE 8 + 4 + header_len

\* GbfError::FieldOutOfBounds { name, offset, csize, payload_len }
FieldOutOfBounds(name, offset, csize, fs, payload_start) ==
    ErrWith("FieldOutOfBounds",
            [name |-> name, offset |-> offset, csize |-> csize,
             payload_len |-> IF fs > payload_start THEN fs - payload_start ELSE 0])
read_field_raw(file, payload_start, field) ==
    LET fs == Len(file)
        pos == checked_add_u64(payload_start, field.offset)
        end == checked_add_u64(pos, field.csize)
    IN  IF ExceedsFieldLimit(field.csize) \/ ExceedsFieldLimit(field.usize)
        THEN Err("Unsupported")
        ELSE IF end > fs
        THEN FieldOutOfBounds(field.name, field.offset, field.csize, fs, payload_start)
        ELSE Ok(Bytes(file, pos, field.csize))

\* the checks with a CRC of 0 compared like any other: not what the code does
DecodeValidateZeroChecked(field, raw, validate) ==
    IF validate /\ field.usize > 0 /\ Len(raw) # field.usize
    THEN Err("FieldSizeMismatch")
    ELSE IF validate /\ compute_crc32(raw) # field.crc32
    THEN Err("FieldCrcMismatch")
    ELSE Ok(raw)
\* `if validate`: the checks on the uncompressed bytes
DecodeValidate(field, raw, validate) ==
    IF validate /\ field.usize > 0 /\ Len(raw) # field.usize
    THEN Err("FieldSizeMismatch")
    ELSE IF validate /\ field.crc32 # CrcZero /\ compute_crc32(raw) # field.crc32
    THEN Err("FieldCrcMismatch")
    ELSE Ok(raw)
DecodeInflated(field, dec, validate) ==
    IF ~dec.ok THEN ErrWith("DecompressionFailed", [name |-> field.name])
    ELSE DecodeValidate(field, dec.out, validate)
\* without a declared usize the cap of the inflater is MAX_FIELD_USIZE,
\* above any length of the model
decode_field_bytes(field, comp_bytes, validate) ==
    IF EqIgnoreAsciiCase(field.compression, Utf8("zlib"))
    THEN DecodeInflated(field,
                        zlib_decompress(comp_bytes,
                                        IF field.usize > 0 THEN field.usize ELSE WIDE),
                        validate)
    ELSE IF ExceedsFieldLimit(Len(comp_bytes)) THEN Err("Unsupported")
    ELSE DecodeValidate(field, comp_bytes, validate)

\* sort_by_key(|f| f.offset): a stable sort
SortByOffset(fields) ==
    LET n == Len(fields)
        before(i, j) == fields[i].offset < fields[j].offset
                          \/ (fields[i].offset = fields[j].offset /\ i < j)
        at(r) == CHOOSE i \in 1..n : Cardinality({j \in 1..n : before(j, i)}) = r - 1
    IN  [r \in 1..n |-> fields[at(r)]]
\* flush_group up to the read: Ok of the position and size of the one read
\* of the group, or the error of a group that ends beyond the file
FlushExtent(fs, payload_start, group_start, group_end) ==
    IF checked_add_u64(checked_add_u64(payload_start, group_start),
                       group_end - group_start) > fs
    THEN FieldOutOfBounds(Utf8("<coalesced>"), group_start, group_end - group_start,
                          fs, payload_start)
    ELSE Ok([pos |-> checked_add_u64(payload_start, group_start),
             size |-> group_end - group_start])
\* flush_group: Ok of the (name, chunk) pairs of one group out of one read
FlushBuf(ext, group_start, group_fields, buf) ==
    IF ~ext.ok THEN ext
    ELSE Ok([i \in 1..Len(group_fields) |->
                <<group_fields[i].name,
                  Bytes(buf, group_fields[i].offset - group_start, group_fields[i].csize)>>])
FlushRead(file, ext, group_start, group_fields) ==
    FlushBuf(ext, group_start, group_fields,
             IF ext.ok THEN Bytes(file, ext.v.pos, ext.v.size) ELSE <<>>)
\* the read of a group made at payload_start, without the offset of the
\* group: not what the code does
FlushGroupUnseeked(file, payload_start, group_start, group_end, group_fields) ==
    FlushRead(file, FlushExtent(Len(file), payload_start, 0, group_end - group_start),
              group_start, group_fields)
FlushGroup(file, payload_start, group_start, group_end, group_fields) ==
    FlushRead(file, FlushExtent(Len(file), payload_start, group_start, group_end),
              group_start, group_fields)
\* the group a field opens
OpenGroup(f) ==
    [start |-> f.offset, end |-> checked_add_u64(f.offset, f.csize), fields |-> <<f>>]
\* can_merge, from gap and new_group_size
CanMergeEnd(g, f, f_end) ==
    /\ (IF f.offset > g.end THEN f.offset - g.end ELSE 0) <= READ_COALESCE_MAX_GAP_BYTES
    /\ (IF f_end > g.start THEN f_end - g.start ELSE 0) <= READ_COALESCE_MAX_GROUP_BYTES
CanMerge(g, f) == CanMergeEnd(g, f, checked_add_u64(f.offset, f.csize))
\* group_end = group_end.max(f_end); group_fields.push(*f)
MergeGroup(g, f) ==
    [start |-> g.start, end |-> Max(g.end, checked_add_u64(f.offset, f.csize)),
     fields |-> Append(g.fields, f)]
\* the loop over sorted[i..] with the open group g and the pairs read so far
RECURSIVE CoalesceLoop(_, _, _, _, _, _)
RECURSIVE CoalesceFlushed(_, _, _, _, _, _, _)
RECURSIVE CoalesceExtend(_, _, _, _, _, _, _)
CoalesceLoop(file, payload_start, sorted, i, g, out) ==
    IF i > Len(sorted) THEN CoalesceFlushed(file, payload_start, sorted, i, g, out, g)
    ELSE IF CanMerge(g, sorted[i])
    THEN CoalesceLoop(file, payload_start, sorted, i + 1, MergeGroup(g, sorted[i]), out)
    ELSE CoalesceFlushed(file, payload_start, sorted, i, g, out, OpenGroup(sorted[i]))
\* out.extend(flush_group(..)?) and, in the loop, the next group opened
CoalesceFlushed(file, payload_start, sorted, i, g, out, next) ==
    CoalesceExtend(file, payload_start, sorted, i, out, next,
                   FlushGroup(file, payload_start, g.start, g.end, g.fields))
CoalesceExtend(file, payload_start, sorted, i, out, next, flushed) ==
    IF ~flushed.ok THEN flushed
    ELSE IF i > Len(sorted) THEN Ok(out \o flushed.v)
    ELSE CoalesceLoop(file, payload_start, sorted, i + 1, next, out \o flushed.v)
coalesced_read(file, payload_start, fields) ==
    IF Len(fields) = 0 THEN Ok(<<>>)
    ELSE LET sorted == SortByOffset(fields)
         IN  CoalesceLoop(file, payload_start, sorted, 2, OpenGroup(sorted[1]), <<>>)

\* .iter().find(|f| f.name == name): the first field of that name
FindField(fields, name) ==
    fields[Leftmost({i \in 1..Len(fields) : fields[i].name = name})]
\* the loop `for (name, comp_bytes) in comp_chunks` of read_file and
\* read_var from chunk i on: decode the field and insert it at its path
\* less the first `strip` bytes.  Ok of the map, or the first error
RECURSIVE AssembleLoop(_, _, _, _, _, _)
RECURSIVE AssembleField(_, _, _, _, _, _, _)
RECURSIVE AssembleRaw(_, _, _, _, _, _, _, _)
RECURSIVE AssembleValue(_, _, _, _, _, _, _)
RECURSIVE AssembleInsert(_, _, _, _, _, _)
AssembleLoop(fields, comp_chunks, i, strip, validate, out) ==
    IF i > Len(comp_chunks) THEN Ok(out)
    ELSE AssembleField(fields, comp_chunks, i, strip, validate, out,
                       FindField(fields, comp_chunks[i][1]))
AssembleField(fields, comp_chunks, i, strip, validate, out, field) ==
    AssembleRaw(fields, comp_chunks, i, strip, validate, out, field,
                decode_field_bytes(field, comp_chunks[i][2], validate))
AssembleRaw(fields, comp_chunks, i, strip, validate, out, field, raw) ==
    IF ~raw.ok THEN raw
    ELSE AssembleValue(fields, comp_chunks, i, strip, validate, out,
                       decode_leaf(field, raw.v))
AssembleValue(fields, comp_chunks, i, strip, validate, out, val) ==
    IF ~val.ok THEN val
    ELSE AssembleInsert(fields, comp_chunks, i, strip, validate,
                        assign_by_path(out, Slice(comp_chunks[i][1], strip + 1,
                                                  Len(comp_chunks[i][1])), val.v))
AssembleInsert(fields, comp_chunks, i, strip, validate, ins) ==
    IF ~ins.ok THEN ins
    ELSE AssembleLoop(fields, comp_chunks, i + 1, strip, validate, ins.v)

\* a read_file that wraps the one leaf of a "single" file in a record: not
\* what the code does
ReadRootWrapped(header, out) == IF ~out.ok THEN out ELSE Ok(Struct(out.v))
\* the value read_file returns for the map the loop built
ReadRoot(header, out) ==
    IF ~out.ok THEN out
    ELSE IF EqIgnoreAsciiCase(header.root, Utf8("single")) /\ DOMAIN out.v # {}
    THEN IF Utf8("data") \in DOMAIN out.v THEN Ok(out.v[Utf8("data")])
         \* fallback: first field
         ELSE Ok(out.v[SortedStrs(DOMAIN out.v)[1]])
    ELSE Ok(Struct(out.v))
ReadChunks(header, comp_chunks, validate) ==
    IF ~comp_chunks.ok THEN comp_chunks
    ELSE ReadRoot(header, AssembleLoop(header.fields, comp_chunks.v, 1, 0, validate, EmptyMap))
\* a read that takes a file too short for its header as an empty record:
\* not what the code does
ReadAllShortAsEmpty(file, opts, h) ==
    IF ~h.ok THEN (IF h.err = "Io" THEN Ok(Struct(EmptyMap)) ELSE h)
    ELSE ReadChunks(h.v.header,
                    coalesced_read(file,
                                   field_payload_start(h.v.header_len, h.v.header.payload_start),
                                   h.v.header.fields),
                    opts.validate)
ReadAll(file, opts, h) ==
    IF ~h.ok THEN h
    ELSE ReadChunks(h.v.header,
                    coalesced_read(file,
                                   field_payload_start(h.v.header_len, h.v.header.payload_start),
                                   h.v.header.fields),
                    opts.validate)
\* read_file on the bytes of the file
read_file(file, opts) == ReadAll(file, opts, read_header_and_json(file, opts))

\* the map of a subtree as a Struct
SubtreeOut(out) == IF ~out.ok THEN out ELSE Ok(Struct(out.v))
SubtreeChunks(subtree_fields, comp_chunks, strip, validate) ==
    IF ~comp_chunks.ok THEN comp_chunks
    ELSE SubtreeOut(AssembleLoop(subtree_fields, comp_chunks.v, 1, strip, validate, EmptyMap))
\* Subtree (prefix)
ReadSubtree(file, payload_start, pfx, subtree_fields, validate) ==
    IF Len(subtree_fields) = 0 THEN Err("VarNotFound")
    ELSE SubtreeChunks(subtree_fields, coalesced_read(file, payload_start, subtree_fields),
                       Len(pfx), validate)
LeafOfRaw(field, raw) == IF ~raw.ok THEN raw ELSE decode_leaf(field, raw.v)
LeafOfBytes(field, comp_bytes, validate) ==
    IF ~comp_bytes.ok THEN comp_bytes
    ELSE LeafOfRaw(field, decode_field_bytes(field, comp_bytes.v, validate))
\* Exact leaf?
ReadLeaf(file, payload_start, field, validate) ==
    LeafOfBytes(field, read_field_raw(file, payload_start, field), validate)
\* read_var taking for the subtree every field whose name starts with the
\* path, without the dot: not what the code does
ReadVarAtNoDot(file, fields, payload_start, var_path, opts, exact) ==
    IF var_path = <<>> THEN read_file(file, opts)
    ELSE IF exact # {} THEN ReadLeaf(file, payload_start, fields[Leftmost(exact)], opts.validate)
    ELSE ReadSubtree(file, payload_start, var_path \o <<DOT>>,
                     SelectSeq(fields, LAMBDA f : StartsWith(f.name, var_path)),
                     opts.validate)
ReadVarAt(file, fields, payload_start, var_path, opts, exact) ==
    IF var_path = <<>> THEN read_file(file, opts)
    ELSE IF exact # {} THEN ReadLeaf(file, payload_start, fields[Leftmost(exact)], opts.validate)
    ELSE ReadSubtree(file, payload_start, var_path \o <<DOT>>,
                     SelectSeq(fields, LAMBDA f : StartsWith(f.name, var_path \o <<DOT>>)),
                     opts.validate)
ReadVarIn(file, var_path, opts, h) ==
    IF ~h.ok THEN h
    ELSE ReadVarAt(file, h.v.header.fields,
                   field_payload_start(h.v.header_len, h.v.header.payload_start),
                   var_path, opts,
                   {i \in 1..Len(h.v.header.fields) : h.v.header.fields[i].name = var_path})
\* read_var on the bytes of the file
read_var(file, var_path_in, opts) ==
    ReadVarIn(file, Trim(var_path_in), opts, read_header_and_json(file, opts))

(***************************************************************************)
(* The values and options the codec is exercised on.                       *)
(***************************************************************************)
\* the length of the long arrays (above COMPRESS_THRESHOLD_BYTES)
LongLen == 1100
KeyA == Utf8("a")
KeyB == Utf8("b")
NumInt16 == Numeric("Int16", <<1, 2>>, FALSE, <<1, 0, 255, 255>>, None)
NumComplex == Numeric("Double", <<1, 1>>, TRUE, <<0, 0, 0, 0, 0, 0, 240, 63>>,
                      Some(<<0, 0, 0, 0, 0, 0, 0, 192>>))
\* four bytes whose CRC-32 is 0
NumCrcZero == Numeric("Uint8", <<1, 4>>, FALSE, <<157, 10, 217, 109>>, None)
NumEmpty == Numeric("Single", <<0, 3>>, FALSE, <<>>, None)
\* real_le shorter than the shape asks for: encode_leaf refuses it
NumShort == Numeric("Int32", <<1, 2>>, FALSE, <<1, 0, 0, 0>>, None)
LogSmall == Logical(<<2, 1>>, <<1, 0>>)
LogLong == Logical(<<1, LongLen>>, [i \in 1..LongLen |-> 0])
\* a long array without runs: the coder's output is longer than the input
BytesLong == Numeric("Uint8", <<LongLen, 1>>, FALSE,
                     [i \in 1..LongLen |-> (i * 7) % 256], None)
\* data shorter than the shape asks for: encode_leaf has no check for it
LogShort == Logical(<<2, 2>>, <<1, 0>>)
CharRow == Char(<<1, 2>>, <<104, 8364>>)
StrRow == String(<<1, 3>>, <<Some(Utf8("ab")), None, Some(<<>>)>>)
DtZoned == DateTime(<<1, 2>>, Some(Utf8("UTC")), None, Some(Utf8("yyyy-MM-dd")),
                    <<0, 1>>, <<2024, -5>>, <<2, 0>>, <<29, 0>>, <<86399999, -1>>)
DtNaive == DateTime(<<1, 1>>, None, Some(Utf8("en_US")), None,
                    <<0>>, <<1999>>, <<12>>, <<31>>, <<0>>)
\* a time zone that is present and empty
DtEmptyTz == DateTime(<<1, 1>>, Some(<<>>), None, None, <<0>>, <<2024>>, <<1>>, <<31>>, <<5>>)
DurCol == Duration(<<2, 1>>, <<0, 1>>, <<-1500, 0>>)
CalOne == CalendarDuration(<<1, 1>>, <<0>>, <<-14>>, <<3>>, <<-7>>)
CatRow == Categorical(<<1, 3>>, <<Utf8("lo"), Utf8("hi")>>, <<1, 0, 2>>)
\* a code beyond the categories: neither encode_leaf nor decode_leaf looks
CatBeyond == Categorical(<<1, 2>>, <<Utf8("lo")>>, <<1, 2>>)
Nested ==
    Struct((KeyA :> LogSmall)
             @@ (KeyB :> Struct((KeyA :> EmptyStruct) @@ (Utf8("c") :> CatRow)
                                  @@ (Utf8("zz") :> LogLong))))
Flat == Struct((Utf8("data") :> NumInt16) @@ (Utf8("t") :> DtZoned) @@ (Utf8("s") :> StrRow))
\* a record whose only member is a record without members
HoldsEmpty == Struct((KeyA :> Struct(EmptyMap)) @@ (KeyB :> CharRow))
\* a key with white space around it
Padded == Struct((Utf8(" p ") :> LogSmall) @@ (KeyB :> Struct((KeyA :> DurCol))))
\* two records, the name of one a prefix of the name of the other
Siblings ==
    Struct((KeyA :> Struct((Utf8("x") :> NumInt16) @@ (Utf8("y") :> CharRow)))
             @@ (Utf8("ab") :> Struct((Utf8("x") :> LogSmall))))
\* a key with a dot, in the top-level record and below it
DottedTop == Struct((Utf8("a.b") :> LogSmall))
DottedInner == Struct((KeyA :> Struct((Utf8("c.d") :> LogSmall))))
\* a key that is the empty string, below the top-level record
EmptyKeyInner == Struct((KeyA :> Struct((<<>> :> LogSmall))))

ValueList ==
    <<NumInt16, NumComplex, NumCrcZero, NumEmpty, NumShort, LogSmall, LogLong,
      BytesLong, LogShort, CharRow, StrRow, DtZoned, DtNaive, DtEmptyTz, DurCol,
      CalOne, CatRow, EmptyStruct, Struct(EmptyMap), Nested, Flat, HoldsEmpty, Padded,
      Siblings, DottedTop, DottedInner, CatBeyond, EmptyKeyInner>>

\* compression in {off, on + Auto, on + Always, on + Never}, crc and
\* pretty_header in {off, on}; and level 0, which stores without coding
OptionList ==
    <<WriteOptions(FALSE, "Auto", 1, FALSE, FALSE), WriteOptions(FALSE, "Auto", 1, TRUE, FALSE),
      WriteOptions(TRUE, "Auto", 1, FALSE, FALSE), WriteOptions(TRUE, "Auto", 1, TRUE, FALSE),
      WriteOptions(TRUE, "Always", 1, FALSE, FALSE), WriteOptions(TRUE, "Always", 1, TRUE, FALSE),
      WriteOptions(TRUE, "Never", 1, FALSE, FALSE), WriteOptions(TRUE, "Never", 1, TRUE, FALSE),
      WriteOptions(TRUE, "Always", 0, TRUE, FALSE), WriteOptions(TRUE, "Always", 9, TRUE, TRUE),
      WriteOptions(FALSE, "Auto", 1, TRUE, TRUE), WriteOptions(TRUE, "Auto", 1, FALSE, TRUE)>>

\* every dotted path of a node of value (a leaf or a record), root excluded
RECURSIVE NodePaths(_, _)
NodePaths(value, prefix) ==
    IF value.k # "Struct" THEN {}
    ELSE UNION {LET p == IF prefix = <<>> THEN key ELSE prefix \o <<DOT>> \o key
                IN  {p} \cup NodePaths(value.m[key], p) : key \in DOMAIN value.m}
\* the paths read_var is asked for: the nodes, the root, a path of no node
VarPaths(value) == NodePaths(value, <<>>) \cup {<<>>, Utf8("data"), Utf8("a.q")}

(***************************************************************************)
(* The state.  One call of write_file(path, value, wopts) on a path and    *)
(* the calls of read_file and read_var on what it left there; the turns of *)
(* the header loop on their own; the steps write_file takes on the file    *)
(* system, for several callers on one path.                                *)
(***************************************************************************)
VARIABLES
    value,      \* the value write_file is called with
    wopts,      \* its WriteOptions
    image,      \* <<>> before the call, then <<what write_file returned>>
    file,       \* the bytes at the path; <<>> while nothing is there
    flipped,    \* <<>>, or <<the bit changed in the file after the write>>
    result,     \* <<>>, or <<the read: op, path, validate, out>>
    loop_in,    \* the field table, payload size and flag the loop works on
    loop_st,    \* the locals of the loop
    co_in,      \* the file length, payload origin and fields coalesced_read is given
    co_st,      \* the locals of coalesced_read's loop and the reads it has made
    as_in,      \* the (path, value) pairs a read has to assemble
    as_st,      \* the pairs inserted so far, in order, and the map built of them
    au_in,      \* the leaf the writer decides about: kind, class, length, bytes
    au_st,      \* <<>>, or <<whether the leaf is offered to zlib>>
    path,       \* the path write_file is called with
    dest,       \* what the destination path names
    tmpdir,     \* the directory each caller's temporary file was created in
    temp,       \* each caller's temporary file
    pc,         \* each caller's position in write_file
    ret,        \* what each call returned
    renames     \* the callers in the order their renames took place

codecVars == <<value, wopts, image, file, flipped, result>>
loopVars == <<loop_in, loop_st, co_in, co_st, as_in, as_st, au_in, au_st>>
fsVars == <<path, dest, tmpdir, temp, pc, ret, renames>>
vars == <<value, wopts, image, file, flipped, result, loop_in, loop_st, co_in, co_st,
          as_in, as_st, au_in, au_st, path, dest, tmpdir, temp, pc, ret, renames>>

\* the callers of write_file on one path
NumWriters == 2
Writers == 1..NumWriters
\* coalesced_read has not been called
CoalesceIdle ==
    /\ co_in = [fs |-> 0, payload_start |-> 0, fields |-> <<>>]
    /\ co_st = [pc |-> "idle", sorted |-> <<>>, i |-> 0, g |-> <<>>, reads |-> <<>>,
                ret |-> <<>>]
\* nothing to assemble
AssembleIdle ==
    /\ as_in = <<>>
    /\ as_st = [order |-> <<>>, out |-> Ok(EmptyMap)]
\* no leaf to decide about
AutoIdle ==
    /\ au_in = [kind |-> <<>>, class_name |-> <<>>, len |-> 0, fill |-> "zeros",
                compression_mode |-> "Never"]
    /\ au_st = <<>>
HeaderLoopIdle ==
    /\ loop_in = [fields |-> <<>>, payload_bytes_total |-> 0, pretty_header |-> FALSE]
    /\ loop_st = HeaderLoopInit(Utf8("struct"), <<>>)
LoopIdle ==
    /\ HeaderLoopIdle
    /\ CoalesceIdle
    /\ AssembleIdle
    /\ AutoIdle
FsIdle ==
    /\ path = Utf8("data.gbf")
    /\ dest = <<>>
    /\ tmpdir = [w \in Writers |-> <<>>]
    /\ temp = [w \in Writers |-> <<>>]
    /\ pc = [w \in Writers |-> "idle"]
    /\ ret = [w \in Writers |-> <<>>]
    /\ renames = <<>>
CodecIdle ==
    /\ value = EmptyStruct
    /\ wopts = OptionList[1]
    /\ image = <<>>
    /\ file = <<>>
    /\ flipped = <<>>
    /\ result = <<>>

Init ==
    /\ \E i \in 1..Len(ValueList) : value = ValueList[i]
    /\ \E i \in 1..Len(OptionList) : wopts = OptionList[i]
    /\ image = <<>>
    /\ file = <<>>
    /\ flipped = <<>>
    /\ result = <<>>
    /\ LoopIdle
    /\ FsIdle

\* write_file(path, value, wopts), start to end with no other caller on the
\* path: on Ok the path names the bytes of the temporary file
WriteFile ==
    /\ image = <<>>
    /\ \E w \in {WriteImage(value, wopts)} :
          IF w.ok
          THEN /\ image' = <<Ok([fields |-> w.v.fields, chunks |-> w.v.chunks,
                                 loop |-> w.v.loop])>>
               /\ file' = w.v.bytes
          ELSE /\ image' = <<w>>
               /\ file' = file
    /\ UNCHANGED <<value, wopts, flipped, result>>
    /\ UNCHANGED loopVars
    /\ UNCHANGED fsVars

\* read_file(path, ReadOptions { validate }), once write_file has returned
ReadFile(validate) ==
    /\ image # <<>>
    /\ result = <<>>
    /\ result' = <<[op |-> "read_file", path |-> <<>>, validate |-> validate,
                    out |-> read_file(file, ReadOptions(validate))]>>
    /\ UNCHANGED <<value, wopts, image, file, flipped>>
    /\ UNCHANGED loopVars
    /\ UNCHANGED fsVars

\* read_var(path, var_path, ReadOptions { validate }), once write_file has
\* returned
ReadVar(var_path, validate) ==
    /\ image # <<>>
    /\ result = <<>>
    /\ result' = <<[op |-> "read_var", path |-> var_path, validate |-> validate,
                    out |-> read_var(file, var_path, ReadOptions(validate))]>>
    /\ UNCHANGED <<value, wopts, image, file, flipped>>
    /\ UNCHANGED loopVars
    /\ UNCHANGED fsVars

Next ==
    \/ WriteFile
    \/ \E validate \in BOOLEAN : ReadFile(validate)
    \/ \E var_path \in VarPaths(value), validate \in BOOLEAN : ReadVar(var_path, validate)

Spec == Init /\ [][Next]_vars

(***************************************************************************)
(* Round trip and path equivalence.                                        *)
(***************************************************************************)
\* a value whose arrays hold as many elements as their shape says
RECURSIVE WellShaped(_)
WellShaped(v) ==
    CASE v.k = "Struct" -> \A key \in DOMAIN v.m : WellShaped(v.m[key])
      [] v.k = "EmptyStruct" -> TRUE
      [] v.k = "Numeric" ->
            /\ Len(v.real_le) = element_count_checked(v.shape) * bytes_per_element(v.class)
            /\ v.complex = v.imag_le.some
            /\ v.imag_le.some => Len(v.imag_le.v) = Len(v.real_le)
      [] v.k \in {"Logical", "Char", "String"} ->
            Len(v.data) = element_count_checked(v.shape)
      [] v.k = "DateTime" ->
            \A part \in {v.is_nat, v.year, v.month, v.day, v.ms_day} :
                Len(part) = element_count_checked(v.shape)
      [] v.k = "Duration" ->
            \A part \in {v.is_nan, v.ms} : Len(part) = element_count_checked(v.shape)
      [] v.k = "CalendarDuration" ->
            \A part \in {v.is_missing, v.months, v.days, v.time_ms} :
                Len(part) = element_count_checked(v.shape)
      [] v.k = "Categorical" -> Len(v.codes) = element_count_checked(v.shape)
\* write_file returned Ok with the compact serializer of the header
WrittenCompact == image # <<>> /\ image[1].ok /\ ~wopts.pretty_header

\* C1: a validating read_file of the file write_file left for a value
\* returns a value equal to the one written, whatever the compression
\* and crc options
C1_RoundTrip ==
    \A i \in 1..Len(result) :
        (/\ WrittenCompact
         /\ WellShaped(value)
         /\ result[i].op = "read_file"
         /\ result[i].validate)
        => result[i].out = Ok(value)

\* C2: read_var on a path that names a node of the written value, leaf or
\* record, returns what get_path gives for it
C2_PathEquivalence ==
    \A i \in 1..Len(result) :
        (/\ WrittenCompact
         /\ WellShaped(value)
         /\ result[i].op = "read_var"
         /\ result[i].path # <<>>
         /\ get_path(value, result[i].path).some)
        => result[i].out = Ok(get_path(value, result[i].path).v)

(***************************************************************************)
(* The sizes the header declares, its CRC, and the compression of fields.  *)
(***************************************************************************)
\* write_file returned Ok
Written == image # <<>> /\ image[1].ok
\* the header as stored in the bytes of the file
StoredHeader(bytes) == read_header_and_json(bytes, ReadOptions(FALSE))
\* the first field is at offset 0, each later one where the previous ends
Contiguous(fields) ==
    \A i \in 1..Len(fields) :
        fields[i].offset = IF i = 1 THEN 0 ELSE fields[i - 1].offset + fields[i - 1].csize
SizesAccount(h, len) ==
    /\ h.ok
    /\ h.v.header.payload_start = 8 + 4 + h.v.header_len
    /\ h.v.header.file_size
         = h.v.header.payload_start
           + SumRange([i \in 1..Len(h.v.header.fields) |-> h.v.header.fields[i].csize],
                      1, Len(h.v.header.fields))
    /\ h.v.header.file_size = len
    /\ Contiguous(h.v.header.fields)

\* C3: in the file write_file produced the header's payload_start is
\* 8 + 4 + header_len, its file_size is payload_start plus the sum of the
\* csize of the fields and is the length of the file, and the offsets of
\* the fields are contiguous from 0
C3_SizeAccounting == Written => SizesAccount(StoredHeader(file), Len(file))
\* a file of several fields, one of them stored compressed
C3_Witness ==
    /\ Written
    /\ Len(image[1].v.fields) >= 2
    /\ image[1].v.fields[2].offset > 0
    /\ \E i \in 1..Len(image[1].v.fields) :
           image[1].v.fields[i].csize < image[1].v.fields[i].usize
    /\ SizesAccount(StoredHeader(file), Len(file))

\* C5: a validating read of the file write_file left, unmodified, never
\* returns HeaderCrcMismatch, with the compact serializer and with
\* pretty_header alike
C5_HeaderCrcAgreement ==
    \A i \in 1..Len(result) :
        (Written /\ result[i].validate) => result[i].out # Err("HeaderCrcMismatch")

\* the field is stored as the claim of compression monotonicity says
StoredAsSaid(field, chunk, opts) ==
    /\ Len(chunk) = field.csize
    /\ field.csize <= field.usize
    /\ field.compression \in {Utf8("zlib"), Utf8("none")}
    /\ (field.compression = Utf8("zlib")) = (field.csize < field.usize)
    /\ field.compression = Utf8("zlib")
         => /\ zlib_decompress(chunk, field.usize).ok
            /\ Len(zlib_decompress(chunk, field.usize).out) = field.usize
    /\ field.compression = Utf8("none") => field.csize = field.usize
    /\ (~opts.compression \/ opts.compression_mode = "Never")
         => field.compression = Utf8("none")

\* C6: every field written has csize <= usize; its tag is "zlib" exactly
\* when the stored bytes are zlib output smaller than the raw bytes, else
\* the raw bytes are stored with tag "none" and csize = usize; without
\* compression or with mode Never every tag is "none"
C6_CompressionMonotonic ==
    Written => \A i \in 1..Len(image[1].v.fields) :
                   StoredAsSaid(image[1].v.fields[i], image[1].v.chunks[i], wopts)
\* a field stored compressed, smaller than its raw bytes
C6_WitnessZlib ==
    /\ Written
    /\ \E i \in 1..Len(image[1].v.fields) :
           /\ image[1].v.fields[i].compression = Utf8("zlib")
           /\ image[1].v.fields[i].csize < image[1].v.fields[i].usize

(***************************************************************************)
(* The fixed-point loop of write_file on its own, one turn per step, on    *)
(* field tables whose header lengths lie around a power of ten, where the  *)
(* decimal text of payload_start and file_size grows from turn to turn.    *)
(***************************************************************************)
\* the lengths of the name of the field
NameLenMin == 560
NameLenSpan == 10
NameLens == NameLenMin..(NameLenMin + NameLenSpan)
\* the sizes of its payload
TotalMin == 8990
TotalSpan == 10
Totals == {0} \cup (TotalMin..(TotalMin + TotalSpan))
\* the table of one uint8 field of that name and size, stored raw
LoopFields(n, total) ==
    << FieldMeta([i \in 1..n |-> 120], Utf8("numeric"), Utf8("uint8"), <<1, total>>,
                 FALSE, <<>>, Utf8("none"), 0, total, total, CrcZero) >>

InitLoop ==
    /\ \E n \in NameLens, total \in Totals, pretty_header \in BOOLEAN :
          /\ loop_in = [fields |-> LoopFields(n, total), payload_bytes_total |-> total,
                        pretty_header |-> pretty_header]
          /\ loop_st = HeaderLoopInit(Utf8("struct"), LoopFields(n, total))
    /\ CoalesceIdle
    /\ AssembleIdle
    /\ AutoIdle
    /\ CodecIdle
    /\ FsIdle

\* one turn of the loop, while it has not left
LoopTurn ==
    /\ ~HeaderLoopDone(loop_st)
    /\ loop_st' = HeaderLoopStep(loop_st, loop_in.payload_bytes_total, loop_in.pretty_header)
    /\ UNCHANGED <<loop_in, co_in, co_st, as_in, as_st, au_in, au_st>>
    /\ UNCHANGED codecVars
    /\ UNCHANGED fsVars

NextLoop == LoopTurn
SpecLoop == InitLoop /\ [][NextLoop]_vars

\* C4: the loop leaves by its stable condition, within 10 turns, and never
\* by exhausting its turns with a header that has not converged
C4_HeaderStability ==
    /\ loop_st.iter <= MAX_HEADER_ITERATIONS
    /\ HeaderLoopDone(loop_st) => loop_st.stable
\* the loop left stable after the text of the sizes grew in two turns
C4_Witness == loop_st.stable /\ loop_st.iter >= 6

(***************************************************************************)
(* The steps write_file takes on the file system, for the callers of       *)
(* Writers on one destination that holds a file before the first of them   *)
(* starts.  A step is one call on the file system, and the steps of the    *)
(* callers interleave.  No call fails for a reason outside the model (disk *)
(* full, permissions).                                                     *)
(***************************************************************************)
\* Paths are the bytes of their text, components separated by '/'.
SLASH == 47
\* Path::file_name of a path that does not end in '/': what follows the
\* last '/'
LastSlash(p) == CHOOSE i \in 0..Len(p) : (i = 0 \/ p[i] = SLASH) /\ \A j \in (i + 1)..Len(p) : p[j] # SLASH
FileName(p) == Slice(p, LastSlash(p) + 1, Len(p))
\* Path::extension().is_some(): the file name has a '.' after its first byte
HasExtension(p) == \E i \in 2..Len(FileName(p)) : FileName(p)[i] = DOT
\* set_extension("gbf") on a path that has none
normalize_path(p) == IF HasExtension(p) THEN p ELSE p \o Utf8(".gbf")
\* Path::parent: None for the root and for the empty path, else the path
\* less its last component
Parent(p) ==
    IF p = <<>> \/ p = <<SLASH>> THEN None
    ELSE IF Len(FileName(p)) = Len(p) THEN Some(<<>>)
    ELSE IF Len(p) - Len(FileName(p)) = 1 THEN Some(<<SLASH>>)
    ELSE Some(Slice(p, 1, Len(p) - Len(FileName(p)) - 1))
\* path.parent().unwrap_or_else(|| Path::new("."))
TempDir(p) == IF Parent(p).some THEN Parent(p).v ELSE <<DOT>>

\* the file at the destination before any caller starts
PreviousFile == WriteImage(LogSmall, OptionList[2]).v.bytes
\* the bytes caller w has computed before `NamedTempFile::new_in`
FileOf == [w \in Writers |-> WriteImage(ValueList[w], OptionList[2]).v.bytes]
\* magic, header_len and the header bytes: what is written before the chunks
HeaderPart(bytes) == Slice(bytes, 1, 8 + 4 + U32FromLe(Slice(bytes, 9, 12)))

InitFS ==
    /\ path = Utf8("data.gbf")
    /\ dest = <<PreviousFile>>
    /\ tmpdir = [w \in Writers |-> <<>>]
    /\ temp = [w \in Writers |-> <<>>]
    /\ pc = [w \in Writers |-> "idle"]
    /\ ret = [w \in Writers |-> <<>>]
    /\ renames = <<>>
    /\ CodecIdle
    /\ LoopIdle

\* create_dir_all(dir), NamedTempFile::new_in(dir): an empty file of a
\* fresh name.  temp[w] holds what has been written to it through the
\* BufWriter
FsCreateTemp(w) ==
    /\ pc[w] = "idle"
    /\ temp' = [temp EXCEPT ![w] = << <<>> >>]
    /\ tmpdir' = [tmpdir EXCEPT ![w] = <<TempDir(normalize_path(path))>>]
    /\ pc' = [pc EXCEPT ![w] = "magic"]
    /\ UNCHANGED <<path, dest, ret, renames>>
    /\ UNCHANGED codecVars
    /\ UNCHANGED loopVars
\* w.write_all(&MAGIC_BYTES)
FsWriteMagic(w) ==
    /\ pc[w] = "magic"
    /\ temp' = [temp EXCEPT ![w] = <<Slice(FileOf[w], 1, 8)>>]
    /\ pc' = [pc EXCEPT ![w] = "header_len"]
    /\ UNCHANGED <<dest, ret, renames>>
    /\ UNCHANGED <<path, tmpdir>>
    /\ UNCHANGED codecVars
    /\ UNCHANGED loopVars
\* write_u32_le(&mut w, header_len_final)
FsWriteHeaderLen(w) ==
    /\ pc[w] = "header_len"
    /\ temp' = [temp EXCEPT ![w] = <<Slice(FileOf[w], 1, 8 + 4)>>]
    /\ pc' = [pc EXCEPT ![w] = "header"]
    /\ UNCHANGED <<dest, ret, renames>>
    /\ UNCHANGED <<path, tmpdir>>
    /\ UNCHANGED codecVars
    /\ UNCHANGED loopVars
\* w.write_all(&header_bytes_final)
FsWriteHeader(w) ==
    /\ pc[w] = "header"
    /\ temp' = [temp EXCEPT ![w] = <<HeaderPart(FileOf[w])>>]
    /\ pc' = [pc EXCEPT ![w] = "chunks"]
    /\ UNCHANGED <<dest, ret, renames>>
    /\ UNCHANGED <<path, tmpdir>>
    /\ UNCHANGED codecVars
    /\ UNCHANGED loopVars
\* for ck in &chunks { w.write_all(ck) }
FsWriteChunks(w) ==
    /\ pc[w] = "chunks"
    /\ temp' = [temp EXCEPT ![w] = <<FileOf[w]>>]
    /\ pc' = [pc EXCEPT ![w] = "flush"]
    /\ UNCHANGED <<dest, ret, renames>>
    /\ UNCHANGED <<path, tmpdir>>
    /\ UNCHANGED codecVars
    /\ UNCHANGED loopVars
\* w.flush()
FsFlush(w) ==
    /\ pc[w] = "flush"
    /\ pc' = [pc EXCEPT ![w] = "sync"]
    /\ UNCHANGED <<dest, temp, ret, renames>>
    /\ UNCHANGED <<path, tmpdir>>
    /\ UNCHANGED codecVars
    /\ UNCHANGED loopVars
\* tmp.as_file().sync_all()
FsSync(w) ==
    /\ pc[w] = "sync"
    /\ pc' = [pc EXCEPT ![w] = "exists"]
    /\ UNCHANGED <<dest, temp, ret, renames>>
    /\ UNCHANGED <<path, tmpdir>>
    /\ UNCHANGED codecVars
    /\ UNCHANGED loopVars
\* if path.exists()
FsExists(w) ==
    /\ pc[w] = "exists"
    /\ pc' = [pc EXCEPT ![w] = IF dest # <<>> THEN "remove" ELSE "persist"]
    /\ UNCHANGED <<dest, temp, ret, renames>>
    /\ UNCHANGED <<path, tmpdir>>
    /\ UNCHANGED codecVars
    /\ UNCHANGED loopVars
\* std::fs::remove_file(&path)?: NotFound if the path names nothing; the
\* error returns from write_file and dropping tmp deletes the temporary
FsRemove(w) ==
    /\ pc[w] = "remove"
    /\ IF dest # <<>>
       THEN /\ dest' = <<>>
            /\ pc' = [pc EXCEPT ![w] = "persist"]
            /\ UNCHANGED <<temp, ret>>
       ELSE /\ ret' = [ret EXCEPT ![w] = <<Err("Io")>>]
            /\ temp' = [temp EXCEPT ![w] = <<>>]
            /\ pc' = [pc EXCEPT ![w] = "done"]
            /\ UNCHANGED dest
    /\ UNCHANGED renames
    /\ UNCHANGED <<path, tmpdir>>
    /\ UNCHANGED codecVars
    /\ UNCHANGED loopVars
\* tmp.persist(&path): the rename of the temporary to the path, which
\* replaces what the path names; then Ok(())
FsPersist(w) ==
    /\ pc[w] = "persist"
    /\ dest' = temp[w]
    /\ temp' = [temp EXCEPT ![w] = <<>>]
    /\ ret' = [ret EXCEPT ![w] = <<Ok(<<>>)>>]
    /\ renames' = Append(renames, w)
    /\ pc' = [pc EXCEPT ![w] = "done"]
    /\ UNCHANGED <<path, tmpdir>>
    /\ UNCHANGED codecVars
    /\ UNCHANGED loopVars

NextFS ==
    \/ \E w \in Writers : FsCreateTemp(w)
    \/ \E w \in Writers : FsWriteMagic(w)
    \/ \E w \in Writers : FsWriteHeaderLen(w)
    \/ \E w \in Writers : FsWriteHeader(w)
    \/ \E w \in Writers : FsWriteChunks(w)
    \/ \E w \in Writers : FsFlush(w)
    \/ \E w \in Writers : FsSync(w)
    \/ \E w \in Writers : FsExists(w)
    \/ \E w \in Writers : FsRemove(w)
    \/ \E w \in Writers : FsPersist(w)
SpecFS == InitFS /\ [][NextFS]_vars

\* the files that are complete: the previous one and the callers' own
CompleteFiles == {PreviousFile} \cup {FileOf[w] : w \in Writers}

\* C9: while write_file overwrites the destination, the destination holds
\* at every step the complete previous file or a complete new one, never
\* nothing and never a part of a file
C9_AtomicReplace == dest # <<>> /\ dest[1] \in CompleteFiles

\* C10: when the concurrent calls have all returned, each returned Ok and
\* the destination holds the complete file of the call whose rename came
\* last
C10_LastWriterWins ==
    (\A w \in Writers : pc[w] = "done")
    => /\ \A w \in Writers : ret[w] = <<Ok(<<>>)>>
       /\ renames # <<>>
       /\ dest = <<FileOf[renames[Len(renames)]]>>

(***************************************************************************)
(* One bit of the written file changed before a validating read_file.  The *)
(* files are written with crc on and without compression.                  *)
(***************************************************************************)
FlipValues == <<NumInt16, NumCrcZero>>
FlipOptions == [OptionList[1] EXCEPT !.crc = TRUE]
\* byte b with bit k changed
FlipBit(b, k) == IF (b \div (2 ^ k)) % 2 = 1 THEN b - 2 ^ k ELSE b + 2 ^ k
FlipAt(bytes, pos, k) == [bytes EXCEPT ![pos] = FlipBit(bytes[pos], k)]
\* where the header JSON ends in the bytes of a written file
HeaderEnd(bytes) == 8 + 4 + U32FromLe(Slice(bytes, 9, 12))

InitFlip ==
    /\ \E i \in 1..Len(FlipValues) : value = FlipValues[i]
    /\ wopts = FlipOptions
    /\ image = <<>>
    /\ file = <<>>
    /\ flipped = <<>>
    /\ result = <<>>
    /\ LoopIdle
    /\ FsIdle

\* one bit of one byte of the header JSON changes
FlipHeaderBit ==
    /\ Written
    /\ flipped = <<>>
    /\ result = <<>>
    /\ \E pos \in (8 + 4 + 1)..HeaderEnd(file), k \in 0..7 :
          /\ file' = FlipAt(file, pos, k)
          /\ flipped' = <<[part |-> "header", pos |-> pos, bit |-> k]>>
    /\ UNCHANGED <<value, wopts, image, result>>
    /\ UNCHANGED loopVars
    /\ UNCHANGED fsVars
\* one bit of one byte of the stored bytes of a field changes
FlipFieldBit ==
    /\ Written
    /\ flipped = <<>>
    /\ result = <<>>
    /\ \E pos \in (HeaderEnd(file) + 1)..Len(file), k \in 0..7 :
          /\ file' = FlipAt(file, pos, k)
          /\ flipped' = <<[part |-> "field", pos |-> pos, bit |-> k]>>
    /\ UNCHANGED <<value, wopts, image, result>>
    /\ UNCHANGED loopVars
    /\ UNCHANGED fsVars

NextFlip ==
    \/ WriteFile
    \/ FlipHeaderBit
    \/ FlipFieldBit
    \/ ReadFile(TRUE)
SpecFlip == InitFlip /\ [][NextFlip]_vars

\* the validating read that followed a change of the given part
ReadAfterFlip(part) ==
    /\ flipped # <<>>
    /\ flipped[1].part = part
    /\ result # <<>>

\* C7: after a change of one bit of the header JSON a validating read
\* fails with HeaderCrcMismatch or with a JSON or UTF-8 error
C7_HeaderFlipDetected ==
    ReadAfterFlip("header")
    => result[1].out \in {Err("HeaderCrcMismatch"), Err("Json"), Err("Utf8")}

\* C8: after a change of one bit of the stored bytes of a field a
\* validating read_file fails with FieldCrcMismatch or DecompressionFailed
C8_FieldFlipDetected ==
    ReadAfterFlip("field")
    => /\ ~result[1].out.ok
       /\ result[1].out.err \in {"FieldCrcMismatch", "DecompressionFailed"}

\* ---------------------------------------------------------------------
\* write_file with failing file operations: every `?` of its last part
\* can return early, and the NamedTempFile is dropped on the way out.

\* the paths write_file is called with
DestPaths == {Utf8("data.gbf"), Utf8("out/data"), Utf8("/data.gbf"), Utf8("a/b/c.bin")}
\* dir.join(name)
Join(dir, name) ==
    IF dir = <<>> THEN name
    ELSE IF dir[Len(dir)] = SLASH THEN dir \o name
    ELSE dir \o <<SLASH>> \o name

InitFault ==
    /\ path \in DestPaths
    /\ dest \in {<<>>, <<PreviousFile>>}
    /\ tmpdir = [w \in Writers |-> <<>>]
    /\ temp = [w \in Writers |-> <<>>]
    /\ pc = [w \in Writers |-> "idle"]
    /\ ret = [w \in Writers |-> <<>>]
    /\ renames = <<>>
    /\ CodecIdle
    /\ LoopIdle

\* the calls of write_file follow one another here, as the calls of one
\* thread do: a call starts when no other is between its first and last step
NoCallInFlight == \A o \in Writers : pc[o] \in {"idle", "done"}
\* create_dir_all(dir) and NamedTempFile::new_in(dir) succeed
FaultCreateTemp(w) ==
    /\ NoCallInFlight
    /\ FsCreateTemp(w)
\* create_dir_all(dir)? or NamedTempFile::new_in(dir)? fails: write_file
\* returns the error and no temporary file was made
FsFailCreate(w) ==
    /\ pc[w] = "idle"
    /\ NoCallInFlight
    /\ ret' = [ret EXCEPT ![w] = <<Err("Io")>>]
    /\ pc' = [pc EXCEPT ![w] = "done"]
    /\ UNCHANGED <<path, dest, tmpdir, temp, renames>>
    /\ UNCHANGED codecVars
    /\ UNCHANGED loopVars
\* the failing exit of a step that leaves the temporary file where it is:
\* not what NamedTempFile does
FsFailKeepsTemp(w) ==
    /\ pc[w] \in {"magic", "header_len", "header", "chunks", "flush", "sync", "remove", "persist"}
    /\ ret' = [ret EXCEPT ![w] = <<Err("Io")>>]
    /\ pc' = [pc EXCEPT ![w] = "done"]
    /\ UNCHANGED <<path, dest, tmpdir, temp, renames>>
    /\ UNCHANGED codecVars
    /\ UNCHANGED loopVars
\* a write_all, flush, sync_all, remove_file or persist fails: `?` returns
\* the error, and tmp (for persist, the PersistError's file, which map_err
\* discards) is dropped, which deletes the temporary file
FsFail(w) ==
    /\ pc[w] \in {"magic", "header_len", "header", "chunks", "flush", "sync", "remove", "persist"}
    /\ ret' = [ret EXCEPT ![w] = <<Err("Io")>>]
    /\ temp' = [temp EXCEPT ![w] = <<>>]
    /\ pc' = [pc EXCEPT ![w] = "done"]
    /\ UNCHANGED <<path, dest, tmpdir, renames>>
    /\ UNCHANGED codecVars
    /\ UNCHANGED loopVars

NextFault ==
    \/ \E w \in Writers : FaultCreateTemp(w)
    \/ \E w \in Writers : FsWriteMagic(w)
    \/ \E w \in Writers : FsWriteHeaderLen(w)
    \/ \E w \in Writers : FsWriteHeader(w)
    \/ \E w \in Writers : FsWriteChunks(w)
    \/ \E w \in Writers : FsFlush(w)
    \/ \E w \in Writers : FsSync(w)
    \/ \E w \in Writers : FsExists(w)
    \/ \E w \in Writers : FsRemove(w)
    \/ \E w \in Writers : FsPersist(w)
    \/ \E w \in Writers : FsFailCreate(w)
    \/ \E w \in Writers : FsFail(w)
SpecFault == InitFault /\ [][NextFault]_vars

\* C11: the temporary file of a write is made in the directory of the
\* destination (the directory joined with the destination's file name is
\* the destination), and a write_file that has returned an error has left
\* no temporary file
C11_TempFileDiscipline ==
    \A w \in Writers :
        /\ tmpdir[w] # <<>> =>
               Join(tmpdir[w][1], FileName(normalize_path(path))) = normalize_path(path)
        /\ (pc[w] = "done" /\ ~ret[w][1].ok) => temp[w] = <<>>
\* a caller whose temporary file was made under a directory and whose
\* write_file then failed, the destination being gone as well
C11_Witness ==
    \E w \in Writers :
        /\ pc[w] = "done" /\ ~ret[w][1].ok
        /\ tmpdir[w] # <<>> /\ Len(tmpdir[w][1]) > 1
        /\ temp[w] = <<>> /\ dest = <<>>

(***************************************************************************)
(* The selection rule of read_var.                                         *)
(***************************************************************************)
\* the names of the leaves of a value, relative to it
LeafNamesOf(leaves) == {leaves[i][1] : i \in 1..Len(leaves)}
LeafNames(v) == LeafNamesOf(flatten_to_leaves(v, <<>>).v)
\* a field's name less the first n bytes
Stripped(field, n) == Slice(field.name, n + 1, Len(field.name))
\* out is the Struct of exactly the fields sel, each under its name less the
\* prefix of n bytes and decoded as a single leaf is; or the error of one
SubtreeOf(out, bytes, fields, payload_start, sel, n, validate) ==
    IF out.ok
    THEN /\ out.v.k = "Struct"
         /\ LeafNames(out.v) = {Stripped(fields[i], n) : i \in sel}
         /\ \A i \in sel :
                Ok(get_path(out.v, Stripped(fields[i], n)).v)
                    = ReadLeaf(bytes, payload_start, fields[i], validate)
    ELSE \E i \in sel : out = ReadLeaf(bytes, payload_start, fields[i], validate)
\* what the rule asks of the outcome out of read_var(p) on a file with
\* these header fields
SelectionRule(out, bytes, fields, payload_start, p, validate) ==
    IF \E i \in 1..Len(fields) : fields[i].name = p
    THEN out = ReadLeaf(bytes, payload_start,
                        fields[Leftmost({i \in 1..Len(fields) : fields[i].name = p})],
                        validate)
    ELSE IF \E i \in 1..Len(fields) : StartsWith(fields[i].name, p \o <<DOT>>)
    THEN SubtreeOf(out, bytes, fields, payload_start,
                   {i \in 1..Len(fields) : StartsWith(fields[i].name, p \o <<DOT>>)},
                   Len(p) + 1, validate)
    ELSE out = Err("VarNotFound")
SelectionRuleIn(r, h) ==
    h.ok => SelectionRule(r.out, file, h.v.header.fields,
                          field_payload_start(h.v.header_len, h.v.header.payload_start),
                          Trim(r.path), r.validate)

NumSpaces == Numeric("Uint8", <<1, 16>>, FALSE, [i \in 1..16 |-> 32], None)
AlterValues == <<NumInt16, NumSpaces, Siblings>>
AlterOptions == [OptionList[1] EXCEPT !.crc = TRUE]
\* how far below and above the written sizes the declared sizes go
SizeBelow == 2
SizeAbove == 1

\* the header text of a producer that seals it with its CRC, compact
SealedJson(header) ==
    HeaderJson([header EXCEPT !.header_crc32_hex =
                   compute_header_crc32_hex_from_original_json(
                       HeaderJson([header EXCEPT !.header_crc32_hex = CrcPlaceholder], FALSE)
                           \o <<10>>)], FALSE) \o <<10>>
\* magic, header_len, header, payload
FramedFile(header_json, payload) ==
    MAGIC_BYTES \o ULe(Len(header_json), 4) \o header_json \o payload
\* the payload of a written file
PayloadOf(bytes) == Slice(bytes, HeaderEnd(bytes) + 1, Len(bytes))
\* the sizes a producer may declare: none (0), or near the written ones
DeclaredNear(v) == {0} \cup {v + d - SizeBelow : d \in 0..(SizeBelow + SizeAbove)}

\* read_header_only(path, ReadOptions { validate })
ReadHeaderOnly(validate) ==
    /\ image # <<>>
    /\ result = <<>>
    /\ result' = <<[op |-> "read_header_only", path |-> <<>>, validate |-> validate,
                    out |-> read_header_and_json(file, ReadOptions(validate))]>>
    /\ UNCHANGED <<value, wopts, image, file, flipped>>
    /\ UNCHANGED loopVars
    /\ UNCHANGED fsVars

InitAlter ==
    /\ \E i \in 1..Len(AlterValues) : value = AlterValues[i]
    /\ wopts = AlterOptions
    /\ image = <<>>
    /\ file = <<>>
    /\ flipped = <<>>
    /\ result = <<>>
    /\ LoopIdle
    /\ FsIdle

\* the file is replaced by one with the same fields and payload whose
\* header declares another file_size and payload_start, sealed with its CRC
\* or left with the CRC of the written header
AlterSizes ==
    /\ Written
    /\ flipped = <<>>
    /\ result = <<>>
    /\ \E fs \in DeclaredNear(image[1].v.loop.header.file_size),
          ps \in DeclaredNear(image[1].v.loop.header.payload_start), sealed \in BOOLEAN :
          /\ file' = FramedFile(IF sealed
                                THEN SealedJson([image[1].v.loop.header EXCEPT
                                                    !.file_size = fs, !.payload_start = ps])
                                ELSE HeaderJson([image[1].v.loop.header EXCEPT
                                                    !.file_size = fs, !.payload_start = ps],
                                                FALSE) \o <<10>>,
                                PayloadOf(file))
          /\ flipped' = <<[part |-> "sizes", file_size |-> fs, payload_start |-> ps,
                           sealed |-> sealed]>>
    /\ UNCHANGED <<value, wopts, image, result>>
    /\ UNCHANGED loopVars
    /\ UNCHANGED fsVars

\* how far below and above the written header_len the stored word goes
LenSpan == 16
\* the words written over header_len: the ends of its range, and values near
\* the written one
HeaderLenLies(header_len) ==
    ({0, 1, 2, MAX_HEADER_LEN, MAX_HEADER_LEN + 1, WIDE}
        \cup {header_len + d - LenSpan : d \in 0..(2 * LenSpan)}) \ {header_len}
\* the header_len word of the file is overwritten
AlterHeaderLen ==
    /\ Written
    /\ flipped = <<>>
    /\ result = <<>>
    /\ \E lie \in HeaderLenLies(U32FromLe(Slice(file, 9, 12))) :
          /\ file' = Slice(file, 1, 8) \o ULe(lie, 4) \o Slice(file, 13, Len(file))
          /\ flipped' = <<[part |-> "header_len", header_len |-> lie]>>
    /\ UNCHANGED <<value, wopts, image, result>>
    /\ UNCHANGED loopVars
    /\ UNCHANGED fsVars
\* the first byte of the file, written or altered, becomes 'X'
AlterMagic ==
    /\ Written
    /\ Len(flipped) <= 1
    /\ \A i \in 1..Len(flipped) : flipped[i].part # "magic"
    /\ result = <<>>
    /\ file' = [file EXCEPT ![1] = 88]
    /\ flipped' = Append(flipped, [part |-> "magic"])
    /\ UNCHANGED <<value, wopts, image, result>>
    /\ UNCHANGED loopVars
    /\ UNCHANGED fsVars
\* the paths read_var is asked for: a leaf of each value, a record
AlterPaths == {Utf8("data"), KeyA}

NextAlter ==
    \/ WriteFile
    \/ AlterSizes
    \/ AlterHeaderLen
    \/ AlterMagic
    \/ \E validate \in BOOLEAN : ReadHeaderOnly(validate)
    \/ \E validate \in BOOLEAN : ReadFile(validate)
    \/ \E var_path \in AlterPaths, validate \in BOOLEAN : ReadVar(var_path, validate)
SpecAlter == InitAlter /\ [][NextAlter]_vars

\* the header of the file could be read and its CRC agrees
HeaderSealed(h) == h.ok /\ validate_header_crc(h.v.header, h.v.header_json).ok
\* out is what the checks of the declared sizes ask for, a declared 0 being
\* no declaration when lenient
SizesChecked(out, h, len, lenient) ==
    IF h.v.header.file_size # len /\ (lenient => h.v.header.file_size > 0)
    THEN out = Err("FileSizeMismatch")
    ELSE (/\ h.v.header.payload_start # 8 + 4 + h.v.header_len
          /\ lenient => h.v.header.payload_start > 0)
         => ~out.ok
SizesCheckedIn(r, h, lenient) ==
    (r.validate /\ HeaderSealed(h)) => SizesChecked(r.out, h, Len(file), lenient)

\* C13 as stated: a validating read_file, read_var or read_header_only fails
\* with FileSizeMismatch whenever the file_size the header declares differs
\* from the length of the file, and fails whenever the payload_start it
\* declares differs from 8 + 4 + header_len
C13_SizeChecks ==
    \A i \in 1..Len(result) : SizesCheckedIn(result[i], StoredHeader(file), FALSE)
\* C13, amended: the same for a declared file_size and a declared
\* payload_start that are not 0; a declared 0 is not checked
C13_NonzeroSizeChecks ==
    \A i \in 1..Len(result) : SizesCheckedIn(result[i], StoredHeader(file), TRUE)
\* a validating read_var refused a file whose header declares one byte more
\* than the file has
C13_Witness ==
    /\ flipped # <<>> /\ flipped[1].part = "sizes"
    /\ StoredHeader(file).ok
    /\ StoredHeader(file).v.header.file_size = Len(file) + 1
    /\ \E i \in 1..Len(result) :
           /\ result[i].op = "read_var" /\ result[i].validate
           /\ result[i].out = Err("FileSizeMismatch")

\* the checks after the header was parsed, in their order: header CRC,
\* file_size, payload_start
ParsedOrder(out, h, len) ==
    IF ~validate_header_crc(h.v.header, h.v.header_json).ok
    THEN out = Err("HeaderCrcMismatch")
    ELSE IF h.v.header.file_size > 0 /\ h.v.header.file_size # len
    THEN out = Err("FileSizeMismatch")
    ELSE (h.v.header.payload_start > 0 /\ h.v.header.payload_start # 8 + 4 + h.v.header_len)
         => out = ErrWith("Format", "payload_start mismatch")
\* the header could not be taken from the file or parsed: that is the error,
\* whatever the later checks would say
UnparsedOrder(out, h, len, validate) ==
    IF ~h.ok THEN ~out.ok /\ out.err \in {"Io", "Utf8", "Json"}
    ELSE validate => ParsedOrder(out, h, len)
\* magic first, then the range of header_len, then the rest
FramingOrder(out, bytes, header_len, validate) ==
    IF Slice(bytes, 1, 8) # MAGIC_BYTES THEN out = ErrWith("Format", "bad magic")
    ELSE IF header_len < 2 \/ header_len > MAX_HEADER_LEN
    THEN out = ErrWith("Format", "invalid header_len")
    ELSE UnparsedOrder(out, StoredHeader(bytes), Len(bytes), validate)

\* C15: every read of a file fails with a format error when its first 8
\* bytes are not the magic or its header_len is below 2 or above 64 MiB,
\* whatever else the file holds; of several faults the one reported is the
\* first in the order magic, header_len, UTF-8/JSON, header CRC, file_size,
\* payload_start
C15_FramingOrder ==
    \A i \in 1..Len(result) :
        Len(file) >= 12
        => FramingOrder(result[i].out, file, U32FromLe(Slice(file, 9, 12)), result[i].validate)
\* a file whose magic and whose header_len are both wrong was refused for
\* its magic
C15_Witness ==
    /\ Len(flipped) = 2 /\ flipped[1].part = "header_len" /\ flipped[1].header_len = 1
    /\ \E i \in 1..Len(result) :
           /\ result[i].op = "read_var"
           /\ result[i].out = ErrWith("Format", "bad magic")

\* C16: once the header_len word of a written file is overwritten with
\* another value, every validating read returns an error (HeaderCrcMismatch,
\* JSON, UTF-8, unexpected end of file or a format error), never a value
C16_HeaderLenLie ==
    (Len(flipped) = 1 /\ flipped[1].part = "header_len")
    => \A i \in 1..Len(result) :
           result[i].validate
           => /\ ~result[i].out.ok
              /\ result[i].out.err \in {"HeaderCrcMismatch", "Json", "Utf8", "Io", "Format"}
\* header_len + 16 over a payload of white space: the header still parses,
\* and the validating read fails on the header CRC
C16_Witness ==
    /\ value = NumSpaces
    /\ Len(flipped) = 1 /\ flipped[1].part = "header_len"
    /\ flipped[1].header_len = image[1].v.loop.header_len_final + 16
    /\ \E i \in 1..Len(result) :
           /\ result[i].op = "read_file" /\ result[i].validate
           /\ result[i].out = Err("HeaderCrcMismatch")

(***************************************************************************)
(* The CRC rule of a field.                                                *)
(***************************************************************************)
\* the values written and the options of each: CRCs on, and for the long
\* array compression, which stores it coded
MetaCases == <<<<NumInt16, OptionList[2]>>, <<Siblings, OptionList[2]>>, <<LogLong, OptionList[6]>>>>
InitMeta ==
    /\ \E i \in 1..Len(MetaCases) : value = MetaCases[i][1] /\ wopts = MetaCases[i][2]
    /\ image = <<>>
    /\ file = <<>>
    /\ flipped = <<>>
    /\ result = <<>>
    /\ LoopIdle
    /\ FsIdle

\* a CRC-32 no field of the values has
CrcOther == <<1, 0, 0, 0>>
\* the file is replaced by one with the same payload, in whose header one
\* field declares another usize and crc32; the header is made as write_file
\* makes it
AlterField ==
    /\ Written
    /\ flipped = <<>>
    /\ result = <<>>
    /\ \E k \in 1..Len(image[1].v.fields), d \in 0..3 :
       \E c \in {CrcZero, CrcOther, image[1].v.fields[k].crc32} :
          /\ file' = WriteHeader(image[1].v.loop.header.root, wopts,
                                 [image[1].v.fields EXCEPT
                                     ![k].usize = IF d = 0 THEN 0 ELSE image[1].v.fields[k].usize + d - 2,
                                     ![k].crc32 = c],
                                 image[1].v.chunks).v.bytes
          /\ flipped' = <<[part |-> "meta", field |-> k, usize |-> d, crc32 |-> c]>>
    /\ UNCHANGED <<value, wopts, image, result>>
    /\ UNCHANGED loopVars
    /\ UNCHANGED fsVars

\* how far a field's declared csize or offset is raised
ExtentSpan == 2
\* the same, for a field that declares a greater csize or a later offset
AlterExtent ==
    /\ Written
    /\ flipped = <<>>
    /\ result = <<>>
    /\ \E k \in 1..Len(image[1].v.fields), dc \in 0..ExtentSpan, do \in 0..ExtentSpan :
          /\ dc + do > 0
          /\ file' = WriteHeader(image[1].v.loop.header.root, wopts,
                                 [image[1].v.fields EXCEPT
                                     ![k].csize = image[1].v.fields[k].csize + dc,
                                     ![k].offset = image[1].v.fields[k].offset + do],
                                 image[1].v.chunks).v.bytes
          /\ flipped' = <<[part |-> "extent", field |-> k, csize |-> dc, offset |-> do]>>
    /\ UNCHANGED <<value, wopts, image, result>>
    /\ UNCHANGED loopVars
    /\ UNCHANGED fsVars

NextMeta ==
    \/ WriteFile
    \/ AlterField
    \/ AlterExtent
    \/ \E validate \in BOOLEAN : ReadFile(validate)
    \/ \E var_path \in VarPaths(value), validate \in BOOLEAN : ReadVar(var_path, validate)
SpecMeta == InitMeta /\ [][NextMeta]_vars

\* the raw bytes of a field: the stored bytes, inflated when it is coded
FieldRaw(field, comp_bytes) ==
    IF EqIgnoreAsciiCase(field.compression, Utf8("zlib"))
    THEN zlib_decompress(comp_bytes, IF field.usize > 0 THEN field.usize ELSE WIDE)
    ELSE [ok |-> TRUE, out |-> comp_bytes]
\* the raw bytes are as long as the field declares, or it declares no length
LengthAgrees(field, raw) == field.usize = 0 \/ Len(raw.out) = field.usize
\* out is FieldCrcMismatch exactly when validate is set, the declared CRC is
\* not 0 and the CRC of the raw bytes is another (and, when sized, the raw
\* bytes have the declared length); without validate neither check is made
CrcRule(out, field, raw, validate, sized) ==
    /\ (out = Err("FieldCrcMismatch"))
         <=> (/\ validate
              /\ field.crc32 # CrcZero
              /\ raw.ok
              /\ sized => LengthAgrees(field, raw)
              /\ compute_crc32(raw.out) # field.crc32)
    /\ ~validate => out \notin {Err("FieldCrcMismatch"), Err("FieldSizeMismatch")}
CrcRuleAt(out, field, comp_bytes, validate, sized) ==
    comp_bytes.ok => CrcRule(out, field, FieldRaw(field, comp_bytes.v), validate, sized)
CrcRuleIn(r, h, sized) ==
    (r.op = "read_var" /\ h.ok)
    => \A k \in 1..Len(h.v.header.fields) :
           h.v.header.fields[k].name = Trim(r.path)
           => CrcRuleAt(r.out, h.v.header.fields[k],
                        read_field_raw(file, field_payload_start(h.v.header_len, h.v.header.payload_start),
                                       h.v.header.fields[k]),
                        r.validate, sized)

\* C14 as stated: the read of a field gives FieldCrcMismatch if and only if
\* validate is set, the field's declared crc32 is not 0 and the CRC-32 of
\* its raw bytes differs from it; without validate no CRC and no size check
\* is made
C14_FieldCrcRule ==
    \A i \in 1..Len(result) :
        CrcRuleIn(result[i], read_header_and_json(file, ReadOptions(result[i].validate)), FALSE)
\* C14, amended: the same, for raw bytes of the declared length; raw bytes of
\* another length give FieldSizeMismatch, whatever their CRC
C14_FieldCrcRuleSized ==
    \A i \in 1..Len(result) :
        CrcRuleIn(result[i], read_header_and_json(file, ReadOptions(result[i].validate)), TRUE)
\* a validating read of the coded field, whose header declares another CRC,
\* gave FieldCrcMismatch
C14_Witness ==
    /\ value = LogLong
    /\ flipped # <<>> /\ flipped[1].part = "meta" /\ flipped[1].crc32 = CrcOther
    /\ \E i \in 1..Len(result) :
           /\ result[i].op = "read_var" /\ result[i].validate
           /\ result[i].out = Err("FieldCrcMismatch")

(***************************************************************************)
(* Reads of a written file cut short.                                      *)
(***************************************************************************)
\* the values written and the options of each
CutCases == <<<<NumInt16, OptionList[2]>>, <<LogLong, OptionList[6]>>, <<Siblings, OptionList[4]>>, <<EmptyStruct, OptionList[2]>>>>
InitCut ==
    /\ \E i \in 1..Len(CutCases) : value = CutCases[i][1] /\ wopts = CutCases[i][2]
    /\ image = <<>>
    /\ file = <<>>
    /\ flipped = <<>>
    /\ result = <<>>
    /\ LoopIdle
    /\ FsIdle
\* the file is cut to one of its proper prefixes
Truncate ==
    /\ Written
    /\ flipped = <<>>
    /\ result = <<>>
    /\ \E n \in 0..(Len(file) - 1) :
          /\ file' = Slice(file, 1, n)
          /\ flipped' = <<[part |-> "cut", len |-> n]>>
    /\ UNCHANGED <<value, wopts, image, result>>
    /\ UNCHANGED loopVars
    /\ UNCHANGED fsVars
NextCut ==
    \/ WriteFile
    \/ Truncate
    \/ \E validate \in BOOLEAN : ReadFile(validate)
SpecCut == InitCut /\ [][NextCut]_vars

\* C17: a validating read_file of a proper prefix of a written file, cut in
\* the magic, in the header or in the payload, returns an error
C17_TruncationDetected ==
    (flipped # <<>> /\ flipped[1].part = "cut")
    => \A i \in 1..Len(result) :
           (result[i].op = "read_file" /\ result[i].validate) => ~result[i].out.ok
\* a file of a coded field cut inside its payload, refused for its size
C17_Witness ==
    /\ value = LogLong
    /\ flipped # <<>> /\ flipped[1].part = "cut"
    /\ flipped[1].len > 8 + 4 + image[1].v.loop.header_len_final
    /\ \E i \in 1..Len(result) :
           /\ result[i].validate
           /\ result[i].out = Err("FileSizeMismatch")

(***************************************************************************)
(* The bounds of a field.                                                  *)
(***************************************************************************)
\* the fields a read takes from the file: all of them, the one of the name,
\* or those under the prefix
FieldsRead(r, fields) ==
    IF r.op = "read_file" \/ Trim(r.path) = <<>> THEN 1..Len(fields)
    ELSE IF \E i \in 1..Len(fields) : fields[i].name = Trim(r.path)
    THEN {Leftmost({i \in 1..Len(fields) : fields[i].name = Trim(r.path)})}
    ELSE {i \in 1..Len(fields) : StartsWith(fields[i].name, Trim(r.path) \o <<DOT>>)}
\* the error names a field that ends beyond the file, with its offset and csize
NamesFieldBeyond(out, fields, beyond) ==
    /\ ~out.ok
    /\ out.err = "FieldOutOfBounds"
    /\ \E i \in beyond :
           /\ out.detail.name = fields[i].name
           /\ out.detail.offset = fields[i].offset
           /\ out.detail.csize = fields[i].csize
BoundsRule(out, fields, sel, payload_start, len) ==
    IF \E i \in sel : ExceedsFieldLimit(fields[i].csize) \/ ExceedsFieldLimit(fields[i].usize)
    THEN ~out.ok
    ELSE (\E i \in sel : payload_start + fields[i].offset + fields[i].csize > len)
         => NamesFieldBeyond(out, fields,
                             {i \in sel : payload_start + fields[i].offset + fields[i].csize > len})
BoundsRuleIn(r, h) ==
    h.ok => BoundsRule(r.out, h.v.header.fields, FieldsRead(r, h.v.header.fields),
                       field_payload_start(h.v.header_len, h.v.header.payload_start), Len(file))

\* C18: read_file, read_var of a leaf and read_var of a subtree reject a
\* field whose csize or usize is above 16 GiB, and for a field whose
\* offset + csize ends beyond the file they return FieldOutOfBounds with
\* the name, the offset and the csize of that field
C18_FieldBounds ==
    \A i \in 1..Len(result) :
        BoundsRuleIn(result[i], read_header_and_json(file, ReadOptions(result[i].validate)))

(***************************************************************************)
(* Keys with a dot.                                                        *)
(***************************************************************************)
\* some key of a record of v, at any depth, holds a '.'
RECURSIVE HasDottedKey(_)
HasDottedKey(v) ==
    /\ v.k = "Struct"
    /\ \E key \in DOMAIN v.m : ContainsDot(key) \/ HasDottedKey(v.m[key])

\* C19: write_file of a value with a '.' in a Struct key at any depth, the
\* keys of the top-level record included, fails with an unsupported-value
\* error and leaves no file
C19_DottedKeys ==
    (image # <<>> /\ HasDottedKey(value))
    => image[1] = Err("Unsupported") /\ file = <<>>

(***************************************************************************)
(* Shapes and lengths on encode.                                           *)
(***************************************************************************)
\* C20: write_file of a value with a leaf, of any kind, whose components
\* are not as long as its shape says (N elements, N the product of the
\* shape, or 0 if a dimension is 0) fails with a format error
C20_ShapeCheckedOnEncode ==
    (image # <<>> /\ ~WellShaped(value)) => image[1] = Err("Format")

(***************************************************************************)
(* The codes of a Categorical.                                             *)
(***************************************************************************)
\* some Categorical of v holds a code greater than the number of its
\* categories
RECURSIVE HasCodeBeyond(_)
HasCodeBeyond(v) ==
    \/ /\ v.k = "Categorical"
       /\ \E i \in 1..Len(v.codes) : v.codes[i] > Len(v.categories)
    \/ /\ v.k = "Struct"
       /\ \E key \in DOMAIN v.m : HasCodeBeyond(v.m[key])

\* C21: write_file of a value holding a Categorical code greater than the
\* number of categories fails, and no read returns a Categorical holding
\* such a code
C21_CodeRange ==
    /\ (image # <<>> /\ HasCodeBeyond(value)) => ~image[1].ok
    /\ (result # <<>> /\ result[1].out.ok) => ~HasCodeBeyond(result[1].out.v)

(***************************************************************************)
(* The kind of the root.                                                   *)
(***************************************************************************)
\* what the rule asks of the header h of the file written for v
RootRule(v, header) ==
    /\ (header.root = Utf8("single")) <=> (v.k # "Struct")
    /\ v.k # "Struct" => /\ Len(header.fields) = 1
                         /\ header.fields[1].name = Utf8("data")
    /\ v.k = "Struct" => header.root = Utf8("struct")
\* a read_file of a "single" file whose header it could read (hr is what
\* read_header_and_json gave it) returned what the field "data" decodes to
SingleRule(r, h, hr) ==
    (r.op = "read_file" /\ h.v.header.root = Utf8("single"))
    => r.out = IF ~hr.ok THEN hr
               ELSE ReadLeaf(file,
                             field_payload_start(h.v.header_len, h.v.header.payload_start),
                             h.v.header.fields[1], r.validate)
RootRuleIn(h) ==
    /\ h.ok
    /\ RootRule(value, h.v.header)
    /\ \A i \in 1..Len(result) :
           SingleRule(result[i], h,
                      read_header_and_json(file, ReadOptions(result[i].validate)))

\* C22: the header of a written file has root "single" exactly when the
\* value is not a Struct, and then one field named "data"; it has root
\* "struct" when the value is a Struct; and read_file of a "single" file
\* returns the decoded "data" leaf itself
C22_RootKind == Written => RootRuleIn(StoredHeader(file))
\* a value that is not a Struct was written and read_file gave it back, not
\* a record holding it
C22_Witness ==
    /\ Written
    /\ value.k \notin {"Struct", "EmptyStruct"}
    /\ \E i \in 1..Len(result) :
           /\ result[i].op = "read_file"
           /\ result[i].out = Ok(value)

(***************************************************************************)
(* coalesced_read on its own, one field of the sorted table at a time, on  *)
(* a file of which only the length matters: tables whose fields are        *)
(* contiguous, apart or overlapping, with sizes about the two limits.      *)
(***************************************************************************)
\* the longest table
TableLen == 3
GroupOffsets ==
    {0, 1, READ_COALESCE_MAX_GAP_BYTES + 2, READ_COALESCE_MAX_GROUP_BYTES}
GroupSizes ==
    {1, READ_COALESCE_MAX_GROUP_BYTES, READ_COALESCE_MAX_GROUP_BYTES + 1}
\* a file that holds every field of every table, and one that does not
GroupFileSizes == {READ_COALESCE_MAX_GROUP_BYTES, 4 * READ_COALESCE_MAX_GROUP_BYTES}
\* the k-th field of a table: "a", "b", ..
GroupField(k, offset, csize) == [name |-> <<96 + k>>, offset |-> offset, csize |-> csize]

InitGroup ==
    /\ \E n \in 0..TableLen, fs \in GroupFileSizes :
         \E offsets \in [1..n -> GroupOffsets], sizes \in [1..n -> GroupSizes] :
            co_in = [fs |-> fs, payload_start |-> 64,
                     fields |-> [k \in 1..n |-> GroupField(k, offsets[k], sizes[k])]]
    /\ co_st = [pc |-> "idle", sorted |-> <<>>, i |-> 0, g |-> <<>>, reads |-> <<>>,
                ret |-> <<>>]
    /\ HeaderLoopIdle
    /\ AssembleIdle
    /\ AutoIdle
    /\ CodecIdle
    /\ FsIdle

\* the one read of a flushed group: where, how long, and for which fields
GroupRead(ext, g) ==
    [pos |-> ext.v.pos, size |-> ext.v.size,
     names |-> [k \in 1..Len(g.fields) |-> g.fields[k].name]]
\* coalesced_read up to its loop: the empty table, or the sort and the
\* group of the first field
CoalesceStart ==
    /\ co_st.pc = "idle"
    /\ co_st' = IF Len(co_in.fields) = 0
                THEN [co_st EXCEPT !.pc = "done", !.ret = <<Ok(<<>>)>>]
                ELSE [co_st EXCEPT !.pc = "loop",
                                   !.sorted = SortByOffset(co_in.fields),
                                   !.i = 2,
                                   !.g = <<OpenGroup(SortByOffset(co_in.fields)[1])>>]
    /\ UNCHANGED <<co_in, loop_in, loop_st, as_in, as_st, au_in, au_st>>
    /\ UNCHANGED codecVars
    /\ UNCHANGED fsVars
\* what a turn or the end of the loop does with the flush of the open
\* group: the error returns, the read is made and the next group opened
CoalesceFlush(ext, next, to) ==
    IF ~ext.ok
    THEN [co_st EXCEPT !.pc = "done", !.ret = <<ext>>]
    ELSE [co_st EXCEPT !.pc = to, !.i = co_st.i + 1, !.g = next,
                       !.reads = Append(co_st.reads, GroupRead(ext, co_st.g[1]))]
\* one turn of `for f in sorted.iter().skip(1)`
CoalesceField ==
    /\ co_st.pc = "loop"
    /\ co_st.i <= Len(co_st.sorted)
    /\ co_st' = IF CanMerge(co_st.g[1], co_st.sorted[co_st.i])
                THEN [co_st EXCEPT !.i = co_st.i + 1,
                                   !.g = <<MergeGroup(co_st.g[1], co_st.sorted[co_st.i])>>]
                ELSE CoalesceFlush(FlushExtent(co_in.fs, co_in.payload_start,
                                               co_st.g[1].start, co_st.g[1].end),
                                   <<OpenGroup(co_st.sorted[co_st.i])>>, "loop")
    /\ UNCHANGED <<co_in, loop_in, loop_st, as_in, as_st, au_in, au_st>>
    /\ UNCHANGED codecVars
    /\ UNCHANGED fsVars
\* the flush after the loop, and Ok(out)
CoalesceLast ==
    /\ co_st.pc = "loop"
    /\ co_st.i > Len(co_st.sorted)
    /\ \E st \in {CoalesceFlush(FlushExtent(co_in.fs, co_in.payload_start,
                                            co_st.g[1].start, co_st.g[1].end),
                                <<>>, "done")} :
          co_st' = IF st.ret = <<>> THEN [st EXCEPT !.ret = <<Ok(st.reads)>>] ELSE st
    /\ UNCHANGED <<co_in, loop_in, loop_st, as_in, as_st, au_in, au_st>>
    /\ UNCHANGED codecVars
    /\ UNCHANGED fsVars

NextGroup ==
    \/ CoalesceStart
    \/ CoalesceField
    \/ CoalesceLast
SpecGroup == InitGroup /\ [][NextGroup]_vars

\* C23: a group of two or more fields, while it is open and when it is
\* read, spans at most READ_COALESCE_MAX_GROUP_BYTES, whatever the table:
\* contiguous, with gaps or with overlaps
C23_CoalescingBounds ==
    /\ \A k \in 1..Len(co_st.reads) :
           Len(co_st.reads[k].names) >= 2
           => co_st.reads[k].size <= READ_COALESCE_MAX_GROUP_BYTES
    /\ (co_st.g # <<>> /\ Len(co_st.g[1].fields) >= 2)
       => co_st.g[1].end - co_st.g[1].start <= READ_COALESCE_MAX_GROUP_BYTES

(***************************************************************************)
(* The loop of read_file that builds the map, on its own: the pairs of a   *)
(* set inserted with assign_by_path in every order.                        *)
(***************************************************************************)
\* the most pairs to assemble
AssembleLen == 3
AssemblePaths == <<Utf8("a"), Utf8("b"), Utf8("a.b"), Utf8("a.c"), Utf8("a.b.c")>>
\* the value that goes with the k-th path
PairValue(k) == IF k % 2 = 1 THEN LogSmall ELSE NumInt16
\* the pairs of the paths ks, in the order of AssemblePaths
PairsOf(ks) ==
    [i \in 1..Cardinality(ks) |->
        <<AssemblePaths[CHOOSE k \in ks : Cardinality({j \in ks : j < k}) = i - 1],
          PairValue(CHOOSE k \in ks : Cardinality({j \in ks : j < k}) = i - 1)>>]

InitAssemble ==
    /\ \E ks \in SUBSET (1..Len(AssemblePaths)) :
          /\ Cardinality(ks) <= AssembleLen
          /\ as_in = PairsOf(ks)
    /\ as_st = [order |-> <<>>, out |-> Ok(EmptyMap)]
    /\ HeaderLoopIdle
    /\ CoalesceIdle
    /\ AutoIdle
    /\ CodecIdle
    /\ FsIdle

\* assign_by_path(&mut out, &field.name, val)?: one turn of the loop of
\* read_file, for a pair not yet inserted; the loop ends at the first error
AssembleTurn(k) ==
    /\ as_st.out.ok
    /\ \A i \in 1..Len(as_st.order) : as_st.order[i] # k
    /\ as_st' = [order |-> Append(as_st.order, k),
                 out |-> assign_by_path(as_st.out.v, as_in[k][1], as_in[k][2])]
    /\ UNCHANGED <<as_in, loop_in, loop_st, co_in, co_st, au_in, au_st>>
    /\ UNCHANGED codecVars
    /\ UNCHANGED fsVars

NextAssemble == \E k \in 1..Len(as_in) : AssembleTurn(k)
SpecAssemble == InitAssemble /\ [][NextAssemble]_vars

\* the pairs inserted one after another from the i-th on
RECURSIVE AssembleFrom(_, _, _)
AssembleFrom(pairs, i, out) ==
    IF ~out.ok \/ i > Len(pairs) THEN out
    ELSE AssembleFrom(pairs, i + 1, assign_by_path(out.v, pairs[i][1], pairs[i][2]))
\* the loop has ended: on an error, or with every pair inserted
Assembled == ~as_st.out.ok \/ Len(as_st.order) = Len(as_in)
\* one path of the pairs is another's followed by a dot and more
HasPrefixPair(pairs) ==
    \E i, j \in 1..Len(pairs) : StartsWith(pairs[j][1], pairs[i][1] \o <<DOT>>)

\* C24: the outcome of the assembly, the tree or the failure, is the one of
\* the pairs inserted in the order they are given, whatever the order they
\* were inserted in; and pairs of which one path is an intermediate prefix
\* of another fail
C24_OrderIndependent ==
    Assembled =>
        /\ as_st.out.ok = AssembleFrom(as_in, 1, Ok(EmptyMap)).ok
        /\ as_st.out.ok => as_st.out = AssembleFrom(as_in, 1, Ok(EmptyMap))
        /\ HasPrefixPair(as_in) => ~as_st.out.ok

(***************************************************************************)
(* The writer's decision to offer a leaf to zlib, on its own: leaves of    *)
(* lengths about the thresholds, of bytes that are all alike, of two       *)
(* kinds, or of every kind a byte can be.                                  *)
(***************************************************************************)
AutoLens ==
    {0, COMPRESS_THRESHOLD_BYTES - 1, COMPRESS_THRESHOLD_BYTES,
     AUTO_ENTROPY_SAMPLE_BYTES, AUTO_COMPRESS_THRESHOLD_BYTES - 1,
     AUTO_COMPRESS_THRESHOLD_BYTES, 1024 * 1024 * 4}
AutoKinds ==
    {<<Utf8("numeric"), Utf8("double")>>, <<Utf8("numeric"), Utf8("single")>>,
     <<Utf8("numeric"), Utf8("int32")>>, <<Utf8("logical"), Utf8("logical")>>}
AutoFills == {"zeros", "pairs", "every"}
\* the raw bytes of the leaf: "every" holds each of the 256 byte values once
\* in every 256 bytes, the most kinds of byte a sample can hold
AutoRaw(len, fill) ==
    [i \in 1..len |-> CASE fill = "zeros" -> 0
                        [] fill = "pairs" -> i % 2
                        [] fill = "every" -> (i * 7) % 256]

InitAuto ==
    /\ \E kc \in AutoKinds, len \in AutoLens, fill \in AutoFills, mode \in CompressionMode :
          au_in = [kind |-> kc[1], class_name |-> kc[2], len |-> len, fill |-> fill,
                   compression_mode |-> mode]
    /\ au_st = <<>>
    /\ HeaderLoopIdle
    /\ CoalesceIdle
    /\ AssembleIdle
    /\ CodecIdle
    /\ FsIdle

\* `let try_compress = ..` of write_file, with opts.compression set
AutoDecide ==
    /\ au_st = <<>>
    /\ au_st' = <<try_compress([kind |-> au_in.kind, class_name |-> au_in.class_name,
                                raw |-> AutoRaw(au_in.len, au_in.fill)],
                               WriteOptions(TRUE, au_in.compression_mode, 1, TRUE, FALSE))>>
    /\ UNCHANGED <<au_in, loop_in, loop_st, co_in, co_st, as_in, as_st>>
    /\ UNCHANGED codecVars
    /\ UNCHANGED fsVars

NextAuto == AutoDecide
SpecAuto == InitAuto /\ [][NextAuto]_vars

\* a numeric double or single leaf
IsFloat(leaf) ==
    leaf.kind = Utf8("numeric") /\ leaf.class_name \in {Utf8("double"), Utf8("single")}
\* the kinds of byte among the first min(len, 4096) bytes
SampleKinds(leaf) ==
    Cardinality({AutoRaw(leaf.len, leaf.fill)[i] :
                    i \in 1..Min(leaf.len, AUTO_ENTROPY_SAMPLE_BYTES)})

\* C25: under Auto a leaf is offered to zlib only if it is at least 1 KiB,
\* at least 64 KiB when it is a double or single leaf, and the ratio of the
\* kinds of byte to the bytes of its sample is at most 0.95; and a double
\* or single leaf of high-entropy bytes, the 1024 x 1024 single matrix
\* among them, is not offered
C25_AutoHeuristic ==
    (au_st # <<>> /\ au_in.compression_mode = "Auto") =>
        /\ au_st[1] =>
              /\ au_in.len >= COMPRESS_THRESHOLD_BYTES
              /\ IsFloat(au_in) => au_in.len >= AUTO_COMPRESS_THRESHOLD_BYTES
              /\ SampleKinds(au_in) * AUTO_ENTROPY_MAX_UNIQUE_RATIO_DEN
                   <= AUTO_ENTROPY_MAX_UNIQUE_RATIO_NUM
                        * Min(au_in.len, AUTO_ENTROPY_SAMPLE_BYTES)
        /\ (IsFloat(au_in) /\ au_in.fill = "every") => ~au_st[1]

(***************************************************************************)
(* The cap of the inflater.                                                *)
(***************************************************************************)
\* min(declared usize, MAX_FIELD_USIZE), MAX_FIELD_USIZE without a declared
\* usize: every usize of the model is below MAX_FIELD_USIZE
CapOf(field) == IF field.usize > 0 THEN field.usize ELSE WIDE
\* what the rule asks of the outcome out of the read of a field tagged
\* "zlib" whose stored bytes are comp
CapRule(out, field, comp, validate) ==
    EqIgnoreAsciiCase(field.compression, Utf8("zlib")) =>
        /\ CapOf(field) < WIDE
           => Len(ZlibRead(Inflate(comp), CapOf(field))) <= CapOf(field) + 1
        /\ (Inflate(comp).ok /\ Len(Inflate(comp).out) > CapOf(field))
           => out = ErrWith("DecompressionFailed", [name |-> field.name])
        /\ decode_field_bytes(field, comp, validate).ok
           => Len(decode_field_bytes(field, comp, validate).v) <= CapOf(field)
CapRuleAt(r, field, comp_bytes) ==
    comp_bytes.ok => CapRule(r.out, field, comp_bytes.v, r.validate)
\* for read_var of a leaf and for read_file of a file of one field
CapRuleIn(r, h) ==
    h.ok
    => \A k \in 1..Len(h.v.header.fields) :
           (\/ r.op = "read_var" /\ h.v.header.fields[k].name = Trim(r.path)
            \/ r.op = "read_file" /\ Len(h.v.header.fields) = 1)
           => CapRuleAt(r, h.v.header.fields[k],
                        read_field_raw(file,
                                       field_payload_start(h.v.header_len,
                                                           h.v.header.payload_start),
                                       h.v.header.fields[k]))

\* C26: the inflater of a field tagged "zlib" stops at cap + 1 bytes, cap
\* being the declared usize (the limit of a field when it declares none); a
\* stream that holds more than cap bytes fails the read with
\* DecompressionFailed and the field's name, validating or not; and the
\* decoder of the leaf gets no more than cap bytes
C26_DecompressionCap ==
    \A i \in 1..Len(result) :
        CapRuleIn(result[i], read_header_and_json(file, ReadOptions(result[i].validate)))
\* the header of the coded field declares one byte less than its stream
\* holds, and a read without validation failed with DecompressionFailed
C26_Witness ==
    /\ value = LogLong
    /\ flipped # <<>> /\ flipped[1].part = "meta" /\ flipped[1].usize = 1
    /\ \E i \in 1..Len(result) :
           /\ ~result[i].validate
           /\ result[i].out = ErrWith("DecompressionFailed", [name |-> Utf8("data")])

(***************************************************************************)
(* The destination after a write that failed.                              *)
(***************************************************************************)
\* caller w has returned an error and no other call has started
FailedAlone(w) ==
    /\ pc[w] = "done" /\ ~ret[w][1].ok
    /\ \A o \in Writers \ {w} : pc[o] = "idle"

\* the calls of SpecFault on a destination that names a file
InitReplace == InitFault /\ dest = <<PreviousFile>>
SpecReplace == InitReplace /\ [][NextFault]_vars

\* C27: the file the destination named before a call of write_file is
\* still what it names, with the content it had, once the call has returned
\* an error, whatever step the error came from
C27_DestinationKept ==
    \A w \in Writers : FailedAlone(w) => dest = <<PreviousFile>>

(***************************************************************************)
(* The names of the fields of a written header.                            *)
(***************************************************************************)
\* pairwise distinct, none empty nor with an empty component between dots,
\* and none that is another followed by a dot and more
NamesWellFormed(fields) ==
    /\ \A i, j \in 1..Len(fields) : fields[i].name = fields[j].name => i = j
    /\ \A i \in 1..Len(fields) :
          /\ fields[i].name # <<>>
          /\ \A k \in 1..Len(SplitDots(fields[i].name)) : SplitDots(fields[i].name)[k] # <<>>
    /\ \A i, j \in 1..Len(fields) : ~StartsWith(fields[j].name, fields[i].name \o <<DOT>>)
\* the names, inserted in the order of the table, make a tree
NamesAssemble(fields) ==
    AssembleFrom([i \in 1..Len(fields) |-> <<fields[i].name, EmptyStruct>>], 1, Ok(EmptyMap)).ok

\* C28: the field names of the header of a written file are pairwise
\* distinct, without an empty component, and none is an intermediate prefix
\* of another; so they assemble without a collision or an invalid path, and
\* read_file of the file of a value whose leaves decode does not fail so
C28_FieldNames ==
    Written =>
        /\ NamesWellFormed(image[1].v.fields)
        /\ NamesAssemble(image[1].v.fields)
        /\ \A i \in 1..Len(result) :
               (result[i].op = "read_file" /\ WellShaped(value))
               => result[i].out # Err("Format")

(***************************************************************************)
(* The origin of the payload.                                              *)
(***************************************************************************)
\* read_file, once the header is read, with the fields taken from origin on
ReadFrom(h, origin, validate) ==
    ReadChunks(h.v.header, coalesced_read(file, origin, h.v.header.fields), validate)
\* a read_file that succeeded gave what the fields hold counted from the
\* end of the header bytes read
OriginRule(r, h) ==
    (r.op = "read_file" /\ r.out.ok /\ h.ok)
    => r.out = ReadFrom(h, 8 + 4 + h.v.header_len, r.validate)

\* C29: every read that succeeds, validating or not, takes the bytes of a
\* field from 8 + 4 + header_len + offset, whatever payload_start the
\* header stores
C29_PayloadOrigin ==
    \A i \in 1..Len(result) :
        OriginRule(result[i], read_header_and_json(file, ReadOptions(result[i].validate)))

(***************************************************************************)
(* coalesced_read over the bytes of a file, against read_field_raw.        *)
(***************************************************************************)
\* a file whose bytes tell their positions apart
PieceFileLen == READ_COALESCE_MAX_GAP_BYTES + 16
PieceFile == [i \in 1..PieceFileLen |-> (i * 7 + i \div 256) % 256]
\* two fields that overlap, one next to them, and two beyond them: one at
\* a gap of READ_COALESCE_MAX_GAP_BYTES from a field of three bytes at 4,
\* one a byte further
PieceOffsets ==
    {0, 2, 4, READ_COALESCE_MAX_GAP_BYTES + 7, READ_COALESCE_MAX_GAP_BYTES + 8}
PieceSizes == {0, 3}
PieceStarts == {0, 7}
\* the k-th wanted field: "a", "b", ..; stored as it is
PieceField(k, offset, csize) ==
    [name |-> <<96 + k>>, offset |-> offset, csize |-> csize, usize |-> csize]

InitPieces ==
    /\ \E n \in 0..TableLen, payload_start \in PieceStarts :
         \E offsets \in [1..n -> PieceOffsets], sizes \in [1..n -> PieceSizes] :
            co_in = [fs |-> PieceFileLen, payload_start |-> payload_start,
                     fields |-> [k \in 1..n |-> PieceField(k, offsets[k], sizes[k])]]
    /\ co_st = [pc |-> "idle", sorted |-> <<>>, i |-> 0, g |-> <<>>, reads |-> <<>>,
                ret |-> <<>>]
    /\ HeaderLoopIdle
    /\ AssembleIdle
    /\ AutoIdle
    /\ value = EmptyStruct
    /\ wopts = OptionList[1]
    /\ image = <<>>
    /\ file = PieceFile
    /\ flipped = <<>>
    /\ result = <<>>
    /\ FsIdle

\* coalesced_read(&mut file, file_size, payload_start, &wanted)
CoalesceCall ==
    /\ co_st.pc = "idle"
    /\ co_st' = [co_st EXCEPT !.pc = "done",
                              !.ret = <<coalesced_read(file, co_in.payload_start,
                                                       co_in.fields)>>]
    /\ UNCHANGED <<co_in, loop_in, loop_st, as_in, as_st, au_in, au_st>>
    /\ UNCHANGED codecVars
    /\ UNCHANGED fsVars

NextPieces == CoalesceCall
SpecPieces == InitPieces /\ [][NextPieces]_vars

\* the extent of every wanted field lies inside the file
ExtentsInside ==
    \A k \in 1..Len(co_in.fields) :
        co_in.payload_start + co_in.fields[k].offset + co_in.fields[k].csize
            <= Len(file)
\* no wanted field declares a csize or usize that read_field_raw refuses;
\* every size the model can hold is within MAX_FIELD_CSIZE and MAX_FIELD_USIZE
WithinFieldLimit ==
    \A k \in 1..Len(co_in.fields) :
        /\ ~ExceedsFieldLimit(co_in.fields[k].csize)
        /\ ~ExceedsFieldLimit(co_in.fields[k].usize)
\* the bytes of the file from payload_start + offset, csize of them
PieceBytes(f) ==
    SubSeq(file, co_in.payload_start + f.offset + 1,
           co_in.payload_start + f.offset + f.csize)
\* the orders of the wanted fields
PieceOrders ==
    {p \in [1..Len(co_in.fields) -> 1..Len(co_in.fields)] :
        \A i, j \in 1..Len(co_in.fields) : i # j => p[i] # p[j]}
\* out holds the wanted fields in the order p, each with what read_field_raw
\* gives for it, and the offsets do not decrease
PiecesIn(out, p) ==
    /\ Len(out) = Len(co_in.fields)
    /\ \A r \in 1..Len(out) :
          /\ read_field_raw(file, co_in.payload_start, co_in.fields[p[r]]).ok
          /\ out[r] = <<co_in.fields[p[r]].name,
                        read_field_raw(file, co_in.payload_start, co_in.fields[p[r]]).v>>
          /\ out[r][2] = PieceBytes(co_in.fields[p[r]])
    /\ \A r \in 1..(Len(out) - 1) :
          co_in.fields[p[r]].offset <= co_in.fields[p[r + 1]].offset

StrippedAssemble(fields, sel, n) ==
    NamesAssemble(SelectSeq([i \in 1..Len(fields) |->
                                [name |-> Stripped(fields[i], n), at |-> i]],
                            LAMBDA f : f.at \in sel))
\* the subtree of the path p is asked for, the names of its fields less
\* p and the dot do not make a tree, and out is the Format error of the
\* assembly
SubtreeFormat(out, fields, p) ==
    /\ \A i \in 1..Len(fields) : fields[i].name # p
    /\ \E i \in 1..Len(fields) : StartsWith(fields[i].name, p \o <<DOT>>)
    /\ ~StrippedAssemble(fields,
                         {i \in 1..Len(fields) : StartsWith(fields[i].name, p \o <<DOT>>)},
                         Len(p) + 1)
    /\ out = Err("Format")
SelectionOrFormatIn(r, h) ==
    h.ok => \/ SelectionRuleIn(r, h)
            \/ SubtreeFormat(r.out, h.v.header.fields, Trim(r.path))

=============================================================================
